---- MODULE Spec2Model ----
(***************************************************************************)
(* ft::Map over ft::AVL (src/src/containers/map.hpp, src/src/Utility/      *)
(* avl.hpp).  The node graph is a heap of records addressed by small      *)
(* integers; every method is transcribed statement by statement.          *)
(***************************************************************************)
EXTENDS Integers, Sequences, FiniteSets, TLC

(* ------------------------------ bounds -------------------------------- *)
\* keys of the map-level specification are 1..NumKeys
NumKeys == 4
\* mapped values are 0..MaxVal; 0 is the default-constructed Mapped_type()
MaxVal == 1
\* keys of the two-map specification are 1..PairKeys
PairKeys == 2
\* keys of the specification that unbalances the tree are 1..DeepKeys
DeepKeys == 8
\* swaps the caller makes while keeping an iterator
MaxSwaps == 2
\* the capacity of the Vector is at most MaxCap
MaxCap == 4
\* sentinels AVL::swap may leave behind before the model stops swapping
MaxLeaked == 1
\* keys of the specification that only inserts are 1..InsertKeys
InsertKeys == 5
\* keys of the specification of the tree of four levels are 1..TallKeys
TallKeys == 14

(* ----------------------------- constants ------------------------------ *)
\* the null pointer (avl.hpp:61)
NULL == 0
\* the value of a pointer that was never written (AVL::AVL reads this->root
\* before assigning it, avl.hpp:298)
Wild == 0 - 1
\* what a cell of the array of a Vector holds when no object was
\* constructed in it (_alloc.allocate, Vector.hpp:936) or the object was
\* destroyed (_alloc.destroy, Vector.hpp:921)
Raw == 0 - 2
\* the mapped value Mapped_type() of operator[] (map.hpp:322)
DefaultVal == 0
\* key field of a node whose pair pointer is NULL (node::init, avl.hpp:65)
NoKey == 0

VARIABLES
    heap,         \* address -> node (AVL::node; live = obtained from _alloc_node and not given back)
    root,         \* map -> AVL::root
    root_parent,  \* map -> AVL::root_parent (the sentinel)
    _size,        \* map -> Map::_size
    leaked,       \* sentinels allocated by the local AVL tmp of AVL::swap, never deallocated
    call,         \* the call that produced this state, with what it returned
    vec           \* the ft::Vector object: its array _v, _capacity and _size

vars == <<heap, root, root_parent, _size, leaked, call, vec>>

Addr == DOMAIN heap

\* the Map objects that were constructed; map m has its sentinel at address m
Maps == DOMAIN root

(* ------------------------------- nodes -------------------------------- *)
\* node::init on freshly allocated storage (all links NULL, height 0, no pair)
init(a) ==
    [live |-> TRUE, parent |-> NULL, left |-> NULL, right |-> NULL,
     key |-> NoKey, val |-> DefaultVal, height |-> 0]

\* storage the allocator holds: not a node of any tree
Unallocated ==
    [live |-> FALSE, parent |-> NULL, left |-> NULL, right |-> NULL,
     key |-> NoKey, val |-> DefaultVal, height |-> 0]

\* Compare = std::less<Key>
_compare(a, b) == a < b

\* node::is_equal
is_equal(h, n, k) == _compare(h[n].key, k) = _compare(k, h[n].key)

\* is_lower_bound with the comparison turned round
is_lower_bound_inverted(h, n, k) == _compare(h[n].key, k) = TRUE

\* node::is_lower_bound
is_lower_bound(h, n, k) == _compare(h[n].key, k) = FALSE

\* is_upper_bound with the test of is_lower_bound
is_upper_bound_as_lower(h, n, k) == _compare(h[n].key, k) = FALSE

\* node::is_upper_bound
is_upper_bound(h, n, k) == _compare(k, h[n].key) = TRUE

\* std::max
max(a, b) == IF a < b THEN b ELSE a

\* node::update_height(node *root); update_height() passes this, which the
\* rotations call through possibly null pointers: the null test is the callee's
update_height(h, n) ==
    IF n = NULL THEN h
    ELSE LET hl == IF h[n].left # NULL THEN h[h[n].left].height ELSE 0
             hh == IF h[n].right # NULL THEN max(h[h[n].right].height, hl) ELSE hl
         IN [h EXCEPT ![n].height = hh + 1]

\* rotation_heights without the call on this
rotation_heights_children_and_top(h, this, new_root) ==
    update_height(update_height(update_height(h, h[this].right), h[this].left), new_root)

\* the four update_height() calls that end a rotation: this->right, this->left,
\* this, new_root
rotation_heights(h, this, new_root) ==
    update_height(update_height(update_height(update_height(h, h[this].right),
                                              h[this].left), this), new_root)

\* what a rotation returns: the heap, the new subtree root, and whether an
\* update_height() was called through a null pointer (ub)
rotation_result(h, this, new_root) ==
    [h |-> rotation_heights(h, this, new_root), n |-> new_root,
     ub |-> h[this].right = NULL \/ h[this].left = NULL]

\* rotation_parents with its two assignments in the other order
rotation_parents_late(h, this, new_root) ==
    [h EXCEPT ![new_root].parent = new_root, ![this].parent = new_root]

\* new_root->parent = this->parent; this->parent = new_root
rotation_parents(h, this, new_root) ==
    [h EXCEPT ![new_root].parent = h[this].parent, ![this].parent = new_root]

\* if (this->right != NULL) this->right->parent = this
adopt_right(h, this) ==
    IF h[this].right # NULL THEN [h EXCEPT ![h[this].right].parent = this] ELSE h

\* if (this->left) this->left->parent = this
adopt_left(h, this) ==
    IF h[this].left # NULL THEN [h EXCEPT ![h[this].left].parent = this] ELSE h

\* left_rotation_to moving the pairs as well: this and new_root exchange theirs
left_rotation_to_exchanging(h, this, new_root) ==
    rotation_result(
        rotation_parents(
            adopt_right([h EXCEPT ![this].right = h[new_root].left,
                                  ![new_root].left = this,
                                  ![this].key = h[new_root].key,
                                  ![this].val = h[new_root].val,
                                  ![new_root].key = h[this].key,
                                  ![new_root].val = h[this].val], this),
            this, new_root),
        this, new_root)

\* node::left_rotation with new_root = this->right
left_rotation_to(h, this, new_root) ==
    rotation_result(
        rotation_parents(
            adopt_right([h EXCEPT ![this].right = h[new_root].left,
                                  ![new_root].left = this], this),
            this, new_root),
        this, new_root)

\* node::left_rotation
left_rotation(h, this) == left_rotation_to(h, this, h[this].right)

\* node::right_rotation with new_root = this->left
right_rotation_to(h, this, new_root) ==
    rotation_result(
        rotation_parents(
            adopt_left([h EXCEPT ![this].left = h[new_root].right,
                                 ![new_root].right = this], this),
            this, new_root),
        this, new_root)

\* node::right_rotation
right_rotation(h, this) == right_rotation_to(h, this, h[this].left)

\* minimum_node without the walk to the left
minimum_node_of_root(h, n) == n

\* node::minimum_node(node *root)
RECURSIVE minimum_node(_, _)
minimum_node(h, n) ==
    IF n # NULL /\ h[n].left # NULL THEN minimum_node(h, h[n].left) ELSE n

\* node::maximum_node(node *root)
RECURSIVE maximum_node(_, _)
maximum_node(h, n) ==
    IF n # NULL /\ h[n].right # NULL THEN maximum_node(h, h[n].right) ELSE n

(* -------------------------------- AVL --------------------------------- *)
\* AVL::get_balance
get_balance(h, n) ==
    (IF h[n].left # NULL THEN h[h[n].left].height ELSE 0)
    - (IF h[n].right # NULL THEN h[h[n].right].height ELSE 0)

\* std::abs
abs(x) == IF x < 0 THEN 0 - x ELSE x

\* the outcome t of a step that followed the step with outcome s
after(s, t) == [t EXCEPT !.ub = s.ub \/ t.ub]

\* n->left = n->left->left_rotation() done (s); return n->right_rotation()
left_right_rotation(s, n) == after(s, right_rotation([s.h EXCEPT ![n].left = s.n], n))

\* n->right = n->right->right_rotation() done (s); return n->left_rotation()
right_left_rotation(s, n) == after(s, left_rotation([s.h EXCEPT ![n].right = s.n], n))

\* balance_tree_by without the double rotations
balance_tree_by_single(h, n, balance) ==
    IF abs(balance) # 2 THEN [h |-> h, n |-> n, ub |-> FALSE]
    ELSE IF balance > 0 THEN right_rotation(h, n) ELSE left_rotation(h, n)

\* AVL::balance_tree, balance being get_balance(n)
balance_tree_by(h, n, balance) ==
    IF abs(balance) # 2 THEN [h |-> h, n |-> n, ub |-> FALSE]
    ELSE IF balance > 0
         THEN IF get_balance(h, h[n].left) > 0
              THEN right_rotation(h, n)
              ELSE left_right_rotation(left_rotation(h, h[n].left), n)
         ELSE IF get_balance(h, h[n].right) < 0
              THEN left_rotation(h, n)
              ELSE right_left_rotation(right_rotation(h, h[n].right), n)

\* AVL::balance_tree
balance_tree(h, n) == balance_tree_by(h, n, get_balance(h, n))

\* AVL::create_node at the address a the allocator returned
create_node(h, k, v, parent, a) ==
    [h |-> [h EXCEPT ![a] = [init(a) EXCEPT !.key = k, !.val = v,
                                            !.height = 1, !.parent = parent]],
     n |-> a, ub |-> FALSE]

\* set_right writing the left link
set_right_to_left(r, n) == [h |-> [r.h EXCEPT ![n].left = r.n], n |-> n, ub |-> r.ub]

\* root->right = (the subtree r returned)
set_right(r, n) == [h |-> [r.h EXCEPT ![n].right = r.n], n |-> n, ub |-> r.ub]

\* root->left = (the subtree r returned)
set_left(r, n) == [h |-> [r.h EXCEPT ![n].left = r.n], n |-> n, ub |-> r.ub]

\* root->update_height(); return balance_tree(root), after the step s
rebalance(s) == after(s, balance_tree(update_height(s.h, s.n), s.n))

\* insert_found assigning the mapped value
insert_found_overwriting(h, n, v) ==
    [h |-> [h EXCEPT ![n].val = v], n |-> n, ub |-> FALSE]

\* AVL::insert at a node n whose key is equivalent: return (root)
insert_found(h, n, v) == [h |-> h, n |-> n, ub |-> FALSE]

\* AVL::insert(node *root, node *parent, value)
RECURSIVE insert(_, _, _, _, _, _)
insert(h, n, parent, k, v, a) ==
    IF n = NULL THEN create_node(h, k, v, parent, a)
    ELSE IF is_equal(h, n, k) THEN insert_found(h, n, v)
    ELSE IF _compare(h[n].key, k)
    THEN rebalance(set_right(insert(h, h[n].right, n, k, v, a), n))
    ELSE rebalance(set_left(insert(h, h[n].left, n, k, v, a), n))

\* AVL::deallocate_node: the pair and the node go back to their allocators
deallocate_node(h, n) == [h EXCEPT ![n] = Unallocated]

\* delete_node, root with at most one child, tmp being that child or NULL
delete_leafward(h, n, tmp) ==
    IF tmp = NULL
    THEN [h |-> deallocate_node(h, n), n |-> NULL, ub |-> FALSE]
    ELSE [h |-> deallocate_node([h EXCEPT ![n].right = h[tmp].right,
                                          ![n].left = h[tmp].left,
                                          ![n].key = h[tmp].key,
                                          ![n].val = h[tmp].val], tmp),
          n |-> n, ub |-> FALSE]

\* take_successor without the copy
take_successor_skipped(h, n, tmp) == h

\* delete_node, root with two children: the pair of tmp, the minimum of the
\* right subtree, is copied into root
take_successor(h, n, tmp) == [h EXCEPT ![n].key = h[tmp].key, ![n].val = h[tmp].val]

\* root->update_height(); return balance_tree(root), unless root became NULL
rebalance_kept(s) == IF s.n = NULL THEN s ELSE rebalance(s)

\* AVL::delete_node(node *root, key)
RECURSIVE delete_node(_, _, _)
delete_node(h, n, key) ==
    IF n = NULL THEN [h |-> h, n |-> NULL, ub |-> FALSE]
    ELSE IF is_equal(h, n, key)
    THEN IF h[n].right = NULL \/ h[n].left = NULL
         THEN rebalance_kept(
                  delete_leafward(h, n, IF h[n].left # NULL THEN h[n].left
                                        ELSE h[n].right))
         ELSE rebalance_kept(
                  set_right(
                      delete_node(take_successor(h, n, minimum_node(h, h[n].right)),
                                  h[n].right, h[minimum_node(h, h[n].right)].key),
                      n))
    ELSE IF _compare(h[n].key, key)
    THEN rebalance_kept(set_right(delete_node(h, h[n].right, key), n))
    ELSE rebalance_kept(set_left(delete_node(h, h[n].left, key), n))

\* AVL::search(node *root, key)
RECURSIVE search(_, _, _)
search(h, n, key) ==
    IF n = NULL THEN n
    ELSE IF is_equal(h, n, key) THEN n
    ELSE IF _compare(h[n].key, key) THEN search(h, h[n].right, key)
    ELSE search(h, h[n].left, key)

(* ----------------------------- allocator ------------------------------ *)
\* addresses the allocator may hand out
FreeAddrs(h) == {a \in DOMAIN h : ~h[a].live}

\* _alloc_node.allocate(1): the lowest unused address (which one
\* std::allocator returns does not matter, the unused ones being alike and
\* every call ending in Normal below), NULL when none is left
allocate(h) ==
    IF FreeAddrs(h) = {} THEN NULL
    ELSE CHOOSE a \in FreeAddrs(h) : \A b \in FreeAddrs(h) : a <= b

(* ------------------------- AVL, public wrappers ----------------------- *)
\* root_parent->left = root, root being the subtree s returned
set_root(s, rp) == [s EXCEPT !.h = [s.h EXCEPT ![rp].left = s.n]]

\* AVL::insert(value): root = insert(root, root_parent, value);
\* root_parent->left = root
avl_insert(h, rt, rp, k, v) == set_root(insert(h, rt, rp, k, v, allocate(h)), rp)

\* AVL::delete_node(key): root = delete_node(root, key); root_parent->left = root
avl_delete_node(h, rt, rp, key) == set_root(delete_node(h, rt, key), rp)

\* AVL::lower_bound(node *root, key)
RECURSIVE lower_bound(_, _, _)
lower_bound(h, n, key) ==
    IF n = NULL \/ is_equal(h, n, key) THEN n
    ELSE LET tmp == IF _compare(key, h[n].key)
                    THEN lower_bound(h, h[n].left, key)
                    ELSE lower_bound(h, h[n].right, key)
         IN IF tmp # NULL /\ (is_equal(h, tmp, key) \/ _compare(h[tmp].key, h[n].key))
            THEN tmp
            ELSE IF is_lower_bound(h, n, key) THEN n ELSE tmp

\* AVL::upper_bound(node *root, key)
RECURSIVE upper_bound(_, _, _)
upper_bound(h, n, key) ==
    IF n = NULL THEN n
    ELSE LET tmp == IF _compare(key, h[n].key)
                    THEN upper_bound(h, h[n].left, key)
                    ELSE upper_bound(h, h[n].right, key)
         IN IF tmp # NULL /\ _compare(h[tmp].key, h[n].key)
            THEN tmp
            ELSE IF is_upper_bound(h, n, key) THEN n ELSE tmp

\* AVL::clear(node *root): post-order, every node of the subtree goes back
RECURSIVE clear(_, _)
clear(h, n) ==
    IF n = NULL THEN h
    ELSE deallocate_node(clear(clear(h, h[n].left), h[n].right), n)

\* AVL::clear(false): root = clear(root); root_parent->left = root
avl_clear(h, rt, rp) == [clear(h, rt) EXCEPT ![rp].left = NULL]

\* this->insert(*(rhs->value)) after the steps with outcome s
copy_value(s, rp, rhs) ==
    after(s, avl_insert(s.h, s.n, rp, s.h[rhs].key, s.h[rhs].val))

\* AVL::copy_tree(rhs) into the tree (s.n, rp): right subtree, left subtree,
\* then insert(*rhs->value)
RECURSIVE copy_tree(_, _, _)
copy_tree(s, rp, rhs) ==
    IF rhs = NULL THEN s
    ELSE copy_value(copy_tree(copy_tree(s, rp, s.h[rhs].right), rp, s.h[rhs].left),
                    rp, rhs)

\* Map::~Map: _tree.clear(true), which clears the tree and gives the
\* sentinel back to the node allocator; ~AVL does nothing
map_destroy(h, rt, rp) == [avl_clear(h, rt, rp) EXCEPT ![rp] = Unallocated]

\* AVL::operator=(rhs): clear(), then copy_tree(rhs.root); rhs.root is read
\* after the clear, which has set it to NULL when rhs is *this
avl_assign(h, rt, rp, rhs_is_this, rhs_rt) ==
    copy_tree([h |-> avl_clear(h, rt, rp), n |-> NULL, ub |-> FALSE], rp,
              IF rhs_is_this THEN NULL ELSE rhs_rt)

\* node::operator++ : the climb through parent links
RECURSIVE climb_right(_, _)
climb_right(h, cur) ==
    IF h[cur].parent # NULL /\ h[h[cur].parent].right = cur
    THEN climb_right(h, h[cur].parent) ELSE h[cur].parent

\* node::operator++
incr(h, cur) ==
    IF h[cur].right # NULL THEN minimum_node(h, h[cur].right) ELSE climb_right(h, cur)

\* node::operator-- : the climb through parent links
RECURSIVE climb_left(_, _)
climb_left(h, cur) ==
    IF h[cur].parent # NULL /\ h[h[cur].parent].left = cur
    THEN climb_left(h, h[cur].parent) ELSE h[cur].parent

\* node::operator--
decr(h, cur) ==
    IF h[cur].left # NULL THEN maximum_node(h, h[cur].left) ELSE climb_left(h, cur)

(* -------------------------------- Map --------------------------------- *)
\* Map::begin: _tree.root->minimum_node(), a call through a null pointer
\* when the tree is empty (minimum_node(node*) tests its argument)
map_begin(h, rt) == minimum_node(h, rt)

\* map_end without the test of _size
map_end_untested(rt, rp, sz) == rp

\* Map::end
map_end(rt, rp, sz) == IF sz # 0 THEN rp ELSE rt

\* map_insert_result without the test of tmp
map_insert_result_untested(s, tmp, sz, k) ==
    [h |-> s.h, rt |-> s.n, sz |-> sz + 1, it |-> search(s.h, s.n, k),
     n |-> 1, ub |-> s.ub]

\* Map::insert(const value_type&), tmp being what search returned before the
\* tree insert and s what the tree insert returned
map_insert_result(s, tmp, sz, k) ==
    IF tmp # NULL
    THEN [h |-> s.h, rt |-> s.n, sz |-> sz, it |-> tmp, n |-> 0, ub |-> s.ub]
    ELSE [h |-> s.h, rt |-> s.n, sz |-> sz + 1, it |-> search(s.h, s.n, k),
          n |-> 1, ub |-> s.ub]

\* Map::insert(const value_type&)
map_insert(h, rt, rp, sz, k, v) ==
    map_insert_result(avl_insert(h, rt, rp, k, v), search(h, rt, k), sz, k)

\* AVL::insert(node*, node*, value) with an allocator that throws in
\* create_node: the exception leaves each frame of the path at its call of
\* insert, before the assignment to root->right or root->left, before
\* update_height and balance_tree; thrown says whether create_node was
\* reached (the key is not in the tree)
RECURSIVE insert_unwound(_, _, _)
insert_unwound(h, n, k) ==
    IF n = NULL THEN [h |-> h, thrown |-> TRUE]
    ELSE IF is_equal(h, n, k) THEN [h |-> h, thrown |-> FALSE]
    ELSE IF _compare(h[n].key, k) THEN insert_unwound(h, h[n].right, k)
    ELSE insert_unwound(h, h[n].left, k)

\* map_insert_thrown with _size counted before the tree insert
map_insert_thrown_counted(s, rt, sz) == [h |-> s.h, rt |-> rt, sz |-> sz + 1]

\* Map::insert(const value_type&) left by the exception at _tree.insert(val),
\* s being what the tree insert has done: AVL::insert(value) has not assigned
\* root nor root_parent->left, Map::insert has not reached ++_size
map_insert_thrown(s, rt, sz) == [h |-> s.h, rt |-> rt, sz |-> sz]

\* map_erase_result without --_size
map_erase_result_uncounted(s, sz) ==
    [h |-> s.h, rt |-> s.n, sz |-> sz, n |-> 1, ub |-> s.ub]

\* Map::erase(const key_type&), the key being found: s is what delete_node returned
map_erase_result(s, sz) == [h |-> s.h, rt |-> s.n, sz |-> sz - 1, n |-> 1, ub |-> s.ub]

\* Map::erase(const key_type&)
map_erase(h, rt, rp, sz, k) ==
    IF search(h, rt, k) # NULL
    THEN map_erase_result(avl_delete_node(h, rt, rp, k), sz)
    ELSE [h |-> h, rt |-> rt, sz |-> sz, n |-> 0, ub |-> FALSE]

\* p points at a node that is allocated
ptr_ok(h, p) == p \in DOMAIN h /\ h[p].live

\* the climb of operator++ from cur reads only allocated nodes
RECURSIVE climb_right_defined(_, _)
climb_right_defined(h, cur) ==
    \/ h[cur].parent = NULL
    \/ /\ ptr_ok(h, h[cur].parent)
       /\ \/ h[h[cur].parent].right # cur
          \/ climb_right_defined(h, h[cur].parent)

\* operator++ on cur reads only allocated nodes
incr_defined(h, cur) ==
    /\ ptr_ok(h, cur)
    /\ h[cur].right # NULL \/ climb_right_defined(h, cur)

\* the climb of operator-- from cur reads only allocated nodes
RECURSIVE climb_left_defined(_, _)
climb_left_defined(h, cur) ==
    \/ h[cur].parent = NULL
    \/ /\ ptr_ok(h, h[cur].parent)
       /\ \/ h[h[cur].parent].left # cur
          \/ climb_left_defined(h, h[cur].parent)

\* operator-- on cur reads only allocated nodes
decr_defined(h, cur) ==
    /\ ptr_ok(h, cur)
    /\ h[cur].left # NULL \/ climb_left_defined(h, cur)

\* Map::erase(iterator, iterator), first loop: tmp.push_back((first++)->first)
\* while first != last.  The key vectors the loop can end with: where
\* operator++ has to read a deallocated node its result is any pointer; a
\* step that dereferences something that is no element ends no vector (the
\* call does not return), nor does a walk longer than the heap
RECURSIVE range_keys(_, _, _, _)
range_keys(h, first, last, fuel) ==
    IF first = last THEN {<<>>}
    ELSE IF fuel = 0 \/ ~ptr_ok(h, first) \/ h[first].key = NoKey THEN {}
    ELSE LET nexts == IF incr_defined(h, first) THEN {incr(h, first)}
                      ELSE DOMAIN h \cup {NULL}
         IN UNION {{<<h[first].key>> \o w : w \in range_keys(h, g, last, fuel - 1)} :
                   g \in nexts}

\* the first loop of Map::erase(iterator, iterator) makes an access with no
\* defined result: through a null pointer, to the sentinel's absent pair, or
\* to a deallocated node
RECURSIVE range_faults(_, _, _, _)
range_faults(h, first, last, fuel) ==
    IF first = last THEN FALSE
    ELSE IF fuel = 0 \/ ~ptr_ok(h, first) THEN TRUE
    ELSE IF h[first].key = NoKey \/ ~incr_defined(h, first) THEN TRUE
    ELSE range_faults(h, incr(h, first), last, fuel - 1)

\* one more this->erase(*it): t is its outcome, s that of the erases before
erased(s, t) == [t EXCEPT !.ub = s.ub \/ t.ub, !.n = s.n + t.n]

\* Map::erase(iterator, iterator), second loop: this->erase(*it) for each key
RECURSIVE erase_keys(_, _, _)
erase_keys(s, rp, ks) ==
    IF ks = <<>> THEN s
    ELSE erase_keys(erased(s, map_erase(s.h, s.rt, rp, s.sz, Head(ks))), rp, Tail(ks))

\* Map::erase(iterator first, iterator last), given the vector tmp it filled
map_erase_range(h, rt, rp, sz, tmp) ==
    erase_keys([h |-> h, rt |-> rt, sz |-> sz, n |-> 0, ub |-> FALSE], rp, tmp)

\* what ++it can return: where operator++ has to read a deallocated node
\* its result is any pointer
incr_results(h, it) == IF incr_defined(h, it) THEN {incr(h, it)} ELSE DOMAIN h \cup {NULL}

\* what --it can return: where operator-- has to read a deallocated node
\* its result is any pointer
decr_results(h, it) == IF decr_defined(h, it) THEN {decr(h, it)} ELSE DOMAIN h \cup {NULL}

\* operator== of ft::pair on the pairs of the nodes x and y
pair_equal(h, x, y) == h[x].key = h[y].key /\ h[x].val = h[y].val

\* operator< of ft::pair on the pairs of the nodes x and y
pair_less(h, x, y) ==
    \/ h[x].key < h[y].key
    \/ ~(h[y].key < h[x].key) /\ h[x].val < h[y].val

\* *it is defined: it points at an allocated node that has a pair (the
\* sentinel has none)
deref_ok(h, it) == ptr_ok(h, it) /\ h[it].key # NoKey

\* ft::equal(first1, last1, first2): the values it can return, 1 for true
\* and 0 for false; none when it dereferences an iterator that has no
\* element (the call does not return) or walks longer than the heap
RECURSIVE ft_equal(_, _, _, _, _)
ft_equal(h, first1, last1, first2, fuel) ==
    IF first1 = last1 THEN {1}
    ELSE IF fuel = 0 \/ ~deref_ok(h, first1) \/ ~deref_ok(h, first2) THEN {}
    ELSE IF ~pair_equal(h, first1, first2) THEN {0}
    ELSE UNION {ft_equal(h, g1, last1, g2, fuel - 1) :
                g1 \in incr_results(h, first1), g2 \in incr_results(h, first2)}

\* ft::lexicographical_compare(first1, last1, first2, last2): the values it
\* can return
RECURSIVE lexicographical_compare(_, _, _, _, _, _)
lexicographical_compare(h, first1, last1, first2, last2, fuel) ==
    IF first1 = last1 THEN {IF first2 # last2 THEN 1 ELSE 0}
    ELSE IF fuel = 0 THEN {}
    ELSE IF first2 = last2 THEN {0}
    ELSE IF ~deref_ok(h, first1) \/ ~deref_ok(h, first2) THEN {}
    ELSE IF pair_less(h, first2, first1) THEN {0}
    ELSE IF pair_less(h, first1, first2) THEN {1}
    ELSE UNION {lexicographical_compare(h, g1, last1, g2, last2, fuel - 1) :
                g1 \in incr_results(h, first1), g2 \in incr_results(h, first2)}

\* operator==(lhs, rhs) of Map, given begin(), end() and size() of lhs and
\* begin() and size() of rhs
map_equal(h, lb, le, lsz, rb, rsz) ==
    IF lsz # rsz THEN {0} ELSE ft_equal(h, lb, le, rb, Cardinality(DOMAIN h))

\* operator<(lhs, rhs) of Map, given begin() and end() of both
map_less(h, lb, le, rb, re) ==
    lexicographical_compare(h, lb, le, rb, re, Cardinality(DOMAIN h))

(* ------------------------------- Vector ------------------------------- *)
\* Vector::Vector(): _v(nullptr), _capacity(0), _size(0); the array is the
\* sequence v of its _capacity cells, index i of the code being place i + 1
Vector == [v |-> <<>>, capacity |-> 0, size |-> 0]

\* _alloc.construct(&_v[i], val) for every i in [start, end)
_fill(s, start, end, val) ==
    [s EXCEPT !.v = [i \in 1..s.capacity |->
                         IF start < i /\ i <= end THEN val ELSE s.v[i]]]

\* _alloc.destroy(&_v[i]) for every i in [start, end): the cells hold no
\* object any more
_destroy(s, start, end) ==
    [s EXCEPT !.v = [i \in 1..s.capacity |->
                         IF start < i /\ i <= end THEN Raw ELSE s.v[i]]]

\* Vector::_realloc(n): a new array of n cells, the elements copied over
_realloc(s, n) ==
    IF n = s.capacity THEN s
    ELSE [s EXCEPT !.v = [i \in 1..n |-> IF i <= s.size THEN s.v[i] ELSE Raw],
                   !.capacity = n]

\* Vector::reserve(n)
reserve(s, n) == IF n <= s.capacity THEN s ELSE _realloc(s, n)

\* Vector::resize, the second if: n < capacity()
resize_within(s, n, val) ==
    IF n < s.capacity
    THEN IF n < s.size THEN _destroy(s, n, s.size - 1) ELSE _fill(s, s.size, n, val)
    ELSE s

\* Vector::resize, the first if: n > capacity()
resize_beyond(s, n, val) ==
    IF n > s.capacity THEN _fill(_realloc(s, n), s.size, n, val) ELSE s

\* Vector::resize(n, val)
resize(s, n, val) == [resize_within(resize_beyond(s, n, val), n, val) EXCEPT !.size = n]

\* _alloc.construct(&_v[_size++], val)
construct_back(s, val) == [s EXCEPT !.v[s.size + 1] = val, !.size = s.size + 1]

\* Vector::push_back(val)
push_back(s, val) ==
    construct_back(IF s.size = s.capacity
                   THEN reserve(s, s.capacity * 2 + (IF s.capacity = 0 THEN 1 ELSE 0))
                   ELSE s, val)

\* Vector::pop_back
pop_back(s) ==
    IF s.size = 0 THEN s
    ELSE [s EXCEPT !.v[s.size] = Raw, !.size = s.size - 1]

\* Vector::at(n) throws std::out_of_range
at_throws(s, n) == n > s.size

\* what reading _v[n] can give: the element there; any value when the cell
\* holds no object or lies behind the array
read_at(s, n) ==
    IF n < s.capacity /\ s.v[n + 1] # Raw THEN {s.v[n + 1]} ELSE 0..MaxVal

(* ------------------------------ observers ----------------------------- *)
\* the nodes of the subtree at n, by child links, in order
RECURSIVE InOrderNodes(_, _)
InOrderNodes(h, n) ==
    IF n = NULL THEN <<>>
    ELSE InOrderNodes(h, h[n].left) \o <<n>> \o InOrderNodes(h, h[n].right)

\* the nodes of map m in sequence order
TreeNodes(m) == InOrderNodes(heap, root[m])

\* the nodes of the subtree at n, by child links
RECURSIVE SubtreeNodes(_, _)
SubtreeNodes(h, n) ==
    IF n = NULL THEN {}
    ELSE {n} \cup SubtreeNodes(h, h[n].left) \cup SubtreeNodes(h, h[n].right)

\* the (key, value) sequence of map m
Contents(m) ==
    [i \in 1..Len(TreeNodes(m)) |-> <<heap[TreeNodes(m)[i]].key, heap[TreeNodes(m)[i]].val>>]

\* the key sequence of map m
KeysOf(m) == [i \in 1..Len(TreeNodes(m)) |-> heap[TreeNodes(m)[i]].key]

\* height of the subtree at n computed from its shape
RECURSIVE Height(_, _)
Height(h, n) ==
    IF n = NULL THEN 0 ELSE 1 + max(Height(h, h[n].left), Height(h, h[n].right))

(* ------------------------------- states ------------------------------- *)
\* the record kept in call
Call(op, m, k, v, it, it2, n) ==
    [op |-> op, m |-> m, k |-> k, v |-> v, it |-> it, it2 |-> it2, n |-> n]

\* no call made yet
NoCall == Call("none", 0, 0, 0, NULL, NULL, 0)

\* maps default-constructed maps over a heap of cells addresses: AVL::AVL
\* allocates the sentinel, init()s it and copies the not yet assigned root
\* into its left pointer
Constructed(maps, cells) ==
    /\ \E g \in [maps -> {NULL, Wild}] :
          heap = [a \in 1..cells |->
                    IF a \in maps THEN [init(a) EXCEPT !.left = g[a]] ELSE Unallocated]
    /\ root = [m \in maps |-> NULL]
    /\ root_parent = [m \in maps |-> m]
    /\ _size = [m \in maps |-> 0]
    /\ leaked = 0
    /\ call = NoCall
    /\ vec = Vector

(* ------------------------- addresses as names ------------------------- *)
\* The program compares pointers and follows them; it never computes with an
\* address.  Two heaps that differ by a permutation of the addresses are the
\* same program state, and the allocator is free to have returned either
\* one's addresses.  Every call leaves the heap in the normal form in which
\* the node holding key k of map m sits at Home(m, k); the permutation is
\* applied to every pointer there is, dangling ones included.
Home(h, maps, m, k) ==
    Cardinality(maps) + (m - 1) * ((Cardinality(DOMAIN h) - Cardinality(maps))
                                     \div Cardinality(maps)) + k

\* position of x in the set S of integers, counted from 1
Rank(x, S) == Cardinality({y \in S : y < x}) + 1

\* a pointer under the permutation f
Moved(f, p) == IF p \in DOMAIN f THEN f[p] ELSE p

\* the state (h, rts, c) under the permutation f, g being its inverse
Renamed(h, rts, c, f, g) ==
    [h |-> [b \in DOMAIN h |->
               [h[g[b]] EXCEPT !.parent = Moved(f, @), !.left = Moved(f, @),
                               !.right = Moved(f, @)]],
     rts |-> [m \in DOMAIN rts |-> Moved(f, rts[m])],
     c |-> [c EXCEPT !.it = Moved(f, @), !.it2 = Moved(f, @)]]

\* the inverse of the permutation f
Inverse(f) == [b \in DOMAIN f |-> CHOOSE a \in DOMAIN f : f[a] = b]

\* where each tree node of (h, rts) is to go: its home
HomeOf(h, rts) ==
    LET nodes == [m \in DOMAIN rts |-> SubtreeNodes(h, rts[m])]
    IN [a \in UNION {nodes[m] : m \in DOMAIN rts} |->
           Home(h, DOMAIN rts, CHOOSE m \in DOMAIN rts : a \in nodes[m], h[a].key)]

\* the permutation that sends the nodes of src home (to dst) and moves as
\* few of the other addresses as can: those in the way take, in order, the
\* places left
HomePerm(h, home, src, dst) ==
    [a \in DOMAIN h |->
        IF a \in src THEN home[a]
        ELSE IF a \in dst
        THEN CHOOSE b \in src \ dst : Rank(b, src \ dst) = Rank(a, dst \ src)
        ELSE a]

\* the normal form of (h, rts, c), home saying where the tree nodes go;
\* nothing moves when a node would go to a sentinel's place or two nodes
\* would share a home
NormalBy(h, rts, c, home, dst) ==
    IF (\A a \in DOMAIN home : home[a] = a)
       \/ ~(dst \subseteq DOMAIN h \ DOMAIN rts)
       \/ Cardinality(dst) # Cardinality(DOMAIN home)
    THEN [h |-> h, rts |-> rts, c |-> c]
    ELSE Renamed(h, rts, c, HomePerm(h, home, DOMAIN home, dst),
                 Inverse(HomePerm(h, home, DOMAIN home, dst)))

\* the range of the function f
Range(f) == {f[a] : a \in DOMAIN f}

\* the state (heap h, roots rts, call record c) in normal form
Normal(h, rts, c) == NormalBy(h, rts, c, HomeOf(h, rts), Range(HomeOf(h, rts)))

(* ------------------------------ actions ------------------------------- *)
\* the process has not stopped
Running == call.op # "crash"

\* what a call on map m leaves behind
Apply(m, r, c) ==
    LET nf == Normal(r.h, [root EXCEPT ![m] = r.rt], c)
    IN /\ Running
       /\ heap' = nf.h
       /\ root' = nf.rts
       /\ _size' = [_size EXCEPT ![m] = r.sz]
       /\ call' = nf.c
       /\ UNCHANGED <<root_parent, leaked, vec>>

\* a call that changes nothing
Query(c) ==
    /\ Running
    /\ call' = c
    /\ UNCHANGED <<heap, root, root_parent, _size, leaked, vec>>

\* what Map::insert does to map m
InsertEffect(m, k, v) == map_insert(heap, root[m], root_parent[m], _size[m], k, v)

\* m.insert(make_pair(k, v))
Insert(m, k, v) ==
    LET r == InsertEffect(m, k, v)
    IN Apply(m, r, Call("insert", m, k, v, r.it, NULL, r.n))

\* m[k], the reference it returns being read
Index(m, k) ==
    LET r == InsertEffect(m, k, DefaultVal)
    IN Apply(m, r, Call("index", m, k, r.h[r.it].val, r.it, NULL, 0))

\* IndexAssign done as insert(make_pair(k, v))
IndexAssignByInsert(m, k, v) ==
    LET r == InsertEffect(m, k, v)
    IN Apply(m, r, Call("index_assign", m, k, v, r.it, NULL, 0))

\* m[k] = v, the reference it returns being written
IndexAssign(m, k, v) ==
    LET r == InsertEffect(m, k, DefaultVal)
    IN Apply(m, [r EXCEPT !.h = [r.h EXCEPT ![r.it].val = v]],
             Call("index_assign", m, k, v, r.it, NULL, 0))

\* what Map::erase(k) does to map m
EraseEffect(m, k) == map_erase(heap, root[m], root_parent[m], _size[m], k)

\* m.erase(k)
EraseKey(m, k) ==
    LET r == EraseEffect(m, k)
    IN Apply(m, r, Call("erase_key", m, k, 0, NULL, NULL, r.n))

\* the elements of map m: what a dereferenceable iterator may point at
Elements(m) == SubtreeNodes(heap, root[m])

\* m.erase(position), position pointing at an element of m
EraseAt(m, position) ==
    /\ position \in Elements(m)
    /\ LET r == EraseEffect(m, heap[position].key)
       IN Apply(m, r, Call("erase_at", m, heap[position].key, 0, position, NULL, 0))

\* Map::end of map m
End(m) == map_end(root[m], root_parent[m], _size[m])

\* the iterators of map m in sequence order: its elements, then end()
Positions(m) == TreeNodes(m) \o <<End(m)>>

\* position of the iterator it in the sequence pos, 0 when it is not there
IndexIn(pos, it) ==
    IF \E i \in 1..Len(pos) : pos[i] = it
    THEN CHOOSE i \in 1..Len(pos) : pos[i] = it
    ELSE 0

\* [first, last) is a range of map m
ValidRange(m, first, last) ==
    /\ first \in Elements(m) \cup {End(m)}
    /\ last \in Elements(m) \cup {End(m)}
    /\ IndexIn(Positions(m), first) <= IndexIn(Positions(m), last)

\* m.erase(first, last) on a range of m; the record keeps the places of
\* first (k) and last (n) in the sequence the call found
EraseRange(m, first, last) ==
    /\ ValidRange(m, first, last)
    /\ \E tmp \in range_keys(heap, first, last, Cardinality(Addr)) :
          LET r == map_erase_range(heap, root[m], root_parent[m], _size[m], tmp)
          IN Apply(m, r, Call("erase_range", m, IndexIn(Positions(m), first), 0,
                              first, last, IndexIn(Positions(m), last)))

\* m.clear(): erase(begin(), end())
Clear(m) ==
    \E tmp \in range_keys(heap, map_begin(heap, root[m]), End(m), Cardinality(Addr)) :
        LET r == map_erase_range(heap, root[m], root_parent[m], _size[m], tmp)
        IN Apply(m, r, Call("clear", m, 0, 0, NULL, NULL, 0))

\* Find without the default to end()
FindWithoutEnd(m, k) ==
    Query(Call("find", m, k, 0, search(heap, root[m], k), NULL, 0))

\* m.find(k)
Find(m, k) ==
    LET target == search(heap, root[m], k)
    IN Query(Call("find", m, k, 0, IF target # NULL THEN target ELSE End(m), NULL, 0))

\* m.count(k)
Count(m, k) ==
    Query(Call("count", m, k, 0, NULL, NULL,
               IF search(heap, root[m], k) # NULL THEN 1 ELSE 0))

\* m.lower_bound(k)
LowerBound(m, k) ==
    LET tmp == lower_bound(heap, root[m], k)
    IN Query(Call("lower_bound", m, k, 0, IF tmp # NULL THEN tmp ELSE End(m), NULL, 0))

\* m.upper_bound(k)
UpperBound(m, k) ==
    LET tmp == upper_bound(heap, root[m], k)
    IN Query(Call("upper_bound", m, k, 0, IF tmp # NULL THEN tmp ELSE End(m), NULL, 0))

\* m.begin(), the null test of minimum_node(node*) having run when the tree
\* is empty
Begin(m) == Query(Call("begin", m, 0, 0, map_begin(heap, root[m]), NULL, 0))

\* the iterators into map m the caller has: those of the last call, and
\* end(); the ones that can be stepped point at an element or are end()
Held(m) == ({call.it, call.it2, End(m)} \cap (Elements(m) \cup {End(m)})) \ {NULL}

\* ++it (bidirectional_iterator::operator++, node::operator++) on an
\* iterator the caller holds that points at an element of m; the record
\* keeps the place of it in the sequence (k), it and the result (it2)
Increment(m, it) ==
    /\ it \in Held(m) \cap Elements(m)
    /\ \E nxt \in incr_results(heap, it) :
          Query(Call("increment", m, IndexIn(Positions(m), it), 0, it, nxt, 0))

\* --it (bidirectional_iterator::operator--, node::operator--) on an
\* iterator the caller holds, end() included; the record keeps the place of
\* it in the sequence (k), it and the result (it2)
Decrement(m, it) ==
    /\ it \in Held(m)
    /\ \E prv \in decr_results(heap, it) :
          Query(Call("decrement", m, IndexIn(Positions(m), it), 0, it, prv, 0))

\* ++it or --it had to read a deallocated node and the process stopped there
WalkCrash(m, it) ==
    /\ it \in Held(m)
    /\ IF incr_defined(heap, it) THEN ~decr_defined(heap, it) ELSE TRUE
    /\ Query(Call("crash", m, 0, 0, NULL, NULL, 0))

\* m.insert(make_pair(k, v)) while the caller keeps the iterator held to an
\* element of m; the record keeps held (it2) and the key it pointed at (n)
InsertHolding(m, k, v, held) ==
    /\ held \in Elements(m)
    /\ LET r == InsertEffect(m, k, v)
       IN Apply(m, r, Call("insert_holding", m, k, v, r.it, held, heap[held].key))

\* m.erase(k) while the caller keeps the iterator held to an element of m
\* of another key; the record keeps held (it2) and the key it pointed at (n)
EraseHolding(m, k, held) ==
    /\ held \in Elements(m)
    /\ heap[held].key # k
    /\ LET r == EraseEffect(m, k)
       IN Apply(m, r, Call("erase_holding", m, k, 0, NULL, held, heap[held].key))

\* the steps of AVL::create_node that can throw: _alloc_node.allocate,
\* _alloc.allocate, _alloc.construct
AllocSteps == 1..3

\* m.insert(make_pair(k, v)) of an absent key, step number stage of
\* create_node throwing: the caller gets the exception; the node storage
\* obtained before a later step threw is not given back
InsertBadAlloc(m, k, v, stage) ==
    LET r == map_insert_thrown(insert_unwound(heap, root[m], k), root[m], _size[m])
    IN /\ Running
       /\ insert_unwound(heap, root[m], k).thrown
       /\ IF stage = 1 THEN leaked' = leaked
          ELSE leaked < MaxLeaked /\ leaked' = leaked + 1
       /\ heap' = r.h
       /\ root' = [root EXCEPT ![m] = r.rt]
       /\ _size' = [_size EXCEPT ![m] = r.sz]
       /\ call' = Call("bad_alloc", m, k, v, NULL, NULL, stage)
       /\ UNCHANGED <<root_parent, vec>>

\* what AVL::operator= does to the heap when map m is assigned map x
AssignEffect(m, x) == avl_assign(heap, root[m], root_parent[m], m = x, root[x])

\* map_assign without the copy of the mapped values
map_assign_keys_only(r, sz) ==
    [h |-> [a \in DOMAIN r.h |-> [r.h[a] EXCEPT !.val = DefaultVal]],
     rt |-> r.n, sz |-> sz]

\* Map::operator=(x): r is what _tree = x._tree has done, sz is x._size
map_assign(r, sz) == [h |-> r.h, rt |-> r.n, sz |-> sz]

\* m = x (Map::operator=), and Map m(x) when m is as its constructor left it
\* (Map(const Map&) is (*this) = x on the default-constructed _tree)
AssignTo(m, x) ==
    Apply(m, map_assign(AssignEffect(m, x), _size[x]),
          Call("assign", m, 0, 0, NULL, NULL, x))

\* m = x (Map::operator=): _tree = x._tree; _size = x._size.  Assigning a
\* map to itself leaves _size above the number of nodes, and inserts then
\* raise it further: sizes above PairKeys are not assigned again
Assign(m, x) == _size[x] <= PairKeys /\ AssignTo(m, x)

\* m.swap(x) (Map::swap, AVL::swap): sizes, roots and sentinels change
\* hands; the sentinel of the local AVL tmp is allocated and never given back
Swap(m, x) ==
    LET nf == Normal(heap, [root EXCEPT ![m] = root[x], ![x] = root[m]],
                     Call("swap", m, 0, 0, NULL, NULL, x))
    IN /\ Running
       /\ leaked < MaxLeaked
       /\ leaked' = leaked + 1
       /\ _size' = [_size EXCEPT ![m] = _size[x], ![x] = _size[m]]
       /\ root_parent' = [root_parent EXCEPT ![m] = root_parent[x],
                                             ![x] = root_parent[m]]
       /\ heap' = nf.h
       /\ root' = nf.rts
       /\ call' = nf.c
       /\ UNCHANGED vec

\* the roots, sentinels and sizes of the maps, as one value
Handles == [rts |-> root, rps |-> root_parent, szs |-> _size]

\* avl_swap that hands this's root and sentinel to x and leaves this's own
avl_swap_one_way(st, this, x) ==
    [st EXCEPT !.rts[x] = st.rts[this], !.rps[x] = st.rps[this]]

\* AVL::swap(x) on this: root and root_parent change hands through the
\* local AVL tmp (allocators and comparators, which have no state, do too)
avl_swap(st, this, x) ==
    [st EXCEPT !.rts[this] = st.rts[x], !.rps[this] = st.rps[x],
               !.rts[x] = st.rts[this], !.rps[x] = st.rps[this]]

\* Map::swap(x) on this: std::swap(_size, x._size); _tree.swap(x._tree)
map_swap(st, this, x) ==
    avl_swap([st EXCEPT !.szs[this] = st.szs[x], !.szs[x] = st.szs[this]], this, x)

\* m.swap(x) while the caller keeps the iterator held to an element of m or
\* of x; the record keeps the key held pointed at (k), the map that element
\* was in (v), held (it2) and x (n)
SwapHolding(m, x, held) ==
    LET st == map_swap(Handles, m, x)
        nf == Normal(heap, st.rts,
                     Call("swap_holding", m, heap[held].key,
                          IF held \in Elements(m) THEN m ELSE x, NULL, held, x))
    IN /\ Running
       /\ held \in Elements(m) \cup Elements(x)
       /\ leaked < MaxSwaps
       /\ leaked' = leaked + 1
       /\ _size' = st.szs
       /\ root_parent' = st.rps
       /\ heap' = nf.h
       /\ root' = nf.rts
       /\ call' = nf.c
       /\ UNCHANGED vec

\* a == b (operator== of Map); the record keeps b (k) and the value
\* returned (n)
Equal(a, b) ==
    \E r \in map_equal(heap, map_begin(heap, root[a]), End(a), _size[a],
                       map_begin(heap, root[b]), _size[b]) :
        Query(Call("equal", a, b, 0, NULL, NULL, r))

\* a < b (operator< of Map); the record keeps b (k) and the value returned (n)
Less(a, b) ==
    \E r \in map_less(heap, map_begin(heap, root[a]), End(a),
                      map_begin(heap, root[b]), End(b)) :
        Query(Call("less", a, b, 0, NULL, NULL, r))

\* a == b or a < b dereferenced an iterator that has no element (a null
\* pointer, the sentinel) and the process stopped there
CompareCrash(a, b) ==
    /\ IF map_equal(heap, map_begin(heap, root[a]), End(a), _size[a],
                    map_begin(heap, root[b]), _size[b]) = {}
       THEN TRUE
       ELSE map_less(heap, map_begin(heap, root[a]), End(a),
                     map_begin(heap, root[b]), End(b)) = {}
    /\ Query(Call("crash", a, 0, 0, NULL, NULL, 0))

\* a member function was called through a null pointer (by the rotations of
\* an insert or erase of k or of an assignment, or by begin() on an empty
\* tree) and the process stopped there instead of running the callee's
\* null test
NullCallCrash(m, k) ==
    /\ IF root[m] = NULL THEN TRUE
       ELSE \/ InsertEffect(m, k, DefaultVal).ub
            \/ EraseEffect(m, k).ub
            \/ \E x \in Maps : AssignEffect(x, m).ub
    /\ Query(Call("crash", m, 0, 0, NULL, NULL, 0))

\* the first loop of erase(first, last) made an access with no defined
\* result and the process stopped there
BadReadCrash(m, first, last) ==
    /\ ValidRange(m, first, last)
    /\ range_faults(heap, first, last, Cardinality(Addr))
    /\ Query(Call("crash", m, 0, 0, NULL, NULL, 0))

(* --------------------- one map, every single-map call ----------------- *)
Keys == 1..NumKeys

Vals == 0..MaxVal

Init == Constructed({1}, NumKeys + 1)

Next ==
    \/ \E k \in Keys, v \in Vals : Insert(1, k, v)
    \/ \E k \in Keys : Index(1, k)
    \/ \E k \in Keys, v \in Vals : IndexAssign(1, k, v)
    \/ \E k \in Keys : EraseKey(1, k)
    \/ \E p \in Elements(1) : EraseAt(1, p)
    \/ \E f, l \in Elements(1) \cup {End(1)} : EraseRange(1, f, l)
    \/ Clear(1)
    \/ \E k \in Keys : Find(1, k)
    \/ \E k \in Keys : Count(1, k)
    \/ \E k \in Keys : LowerBound(1, k)
    \/ \E k \in Keys : UpperBound(1, k)
    \/ Begin(1)
    \/ \E k \in Keys : NullCallCrash(1, k)

Spec == Init /\ [][Next]_vars

(* ------------------ one map, enough keys to unbalance ----------------- *)
\* The caller of this specification fills the map in one fixed order, level
\* by level, so that no insert rotates, and from then on only erases.
DeepOrder == SelectSeq(<<6, 3, 7, 2, 4, 8, 1, 5, 9, 10>>, LAMBDA k : k <= DeepKeys)

DeepKeySet == 1..DeepKeys

\* the caller is still filling map m
Filling(m) == call.op \in {"none", "insert"} /\ _size[m] < Len(DeepOrder)

\* the next insert of the fill
InsertNext(m) == Filling(m) /\ Insert(m, DeepOrder[_size[m] + 1], DefaultVal)

InitDeep == Constructed({1}, DeepKeys + 1)

NextDeep ==
    \/ InsertNext(1)
    \/ \E k \in DeepKeySet : EraseKey(1, k)
    \/ \E f, l \in Elements(1) \cup {End(1)} : EraseRange(1, f, l)
    \/ \E f, l \in Elements(1) \cup {End(1)} : BadReadCrash(1, f, l)
    \/ \E k \in DeepKeySet : NullCallCrash(1, k)

SpecDeep == InitDeep /\ [][NextDeep]_vars

(* ------------------------ two maps, assign and swap ------------------- *)
PairKeySet == 1..PairKeys

InitPair == Constructed({1, 2}, 2 + 2 * PairKeys)

NextPair ==
    \/ \E m \in Maps, k \in PairKeySet, v \in Vals : Insert(m, k, v)
    \/ \E m \in Maps, k \in PairKeySet : EraseKey(m, k)
    \/ \E m \in Maps : Clear(m)
    \/ \E m, x \in Maps : Assign(m, x)
    \/ \E m, x \in Maps : Swap(m, x)
    \/ \E m \in Maps, k \in PairKeySet : NullCallCrash(m, k)

SpecPair == InitPair /\ [][NextPair]_vars

(* ------------ two maps, one unbalanced and copied to the other -------- *)
\* The caller of this specification puts an element into map 2, fills map 1
\* in DeepOrder with values that differ from key to key, erases from map 1
\* by key, and then copies map 1 to map 2.
FillVal(k) == k % (MaxVal + 1)

\* the caller has not touched map m yet
Untouched(m) == root[m] = NULL /\ _size[m] = 0 /\ call.m # m

\* an insert into the destination x before the source m is filled
InsertBefore(x, m, k, v) == Untouched(m) /\ Insert(x, k, v)

\* the next insert of the fill of map m
FillNext(m) == Filling(m) /\ Insert(m, DeepOrder[_size[m] + 1], FillVal(DeepOrder[_size[m] + 1]))

\* the caller has copied
Copied == call.op = "assign"

\* an erase by key from the source before the copy
EraseBeforeCopy(m, k) == ~Copied /\ EraseKey(m, k)

InitCopy == Constructed({1, 2}, 2 + 2 * DeepKeys)

NextCopy ==
    \/ \E v \in Vals : InsertBefore(2, 1, 1, v)
    \/ FillNext(1)
    \/ \E k \in DeepKeySet : EraseBeforeCopy(1, k)
    \/ AssignTo(2, 1)
    \/ \E m \in Maps, k \in DeepKeySet : NullCallCrash(m, k)

SpecCopy == InitCopy /\ [][NextCopy]_vars

(* ------------- two maps swapped, iterators kept across it ------------- *)
NextSwap ==
    \/ \E m \in Maps, k \in PairKeySet, v \in Vals : Insert(m, k, v)
    \/ \E m \in Maps, k \in PairKeySet : EraseKey(m, k)
    \/ \E m, x \in Maps : Swap(m, x)
    \/ \E m, x \in Maps, held \in Addr : SwapHolding(m, x, held)
    \/ \E m \in Maps, k \in PairKeySet : NullCallCrash(m, k)

SpecSwap == InitPair /\ [][NextSwap]_vars

(* ----------------------- two maps compared ---------------------------- *)
NextCompare ==
    \/ \E m \in Maps, k \in PairKeySet, v \in Vals : Insert(m, k, v)
    \/ \E m \in Maps, k \in PairKeySet : EraseKey(m, k)
    \/ \E m \in Maps : Assign(m, m)
    \/ Equal(1, 2)
    \/ Less(1, 2)
    \/ CompareCrash(1, 2)
    \/ \E m \in Maps, k \in PairKeySet : NullCallCrash(m, k)

SpecCompare == InitPair /\ [][NextCompare]_vars

(* ------------------------------ a Vector ------------------------------ *)
\* a call on the Vector that leaves it as s
VectorCall(s, c) ==
    /\ Running
    /\ vec' = s
    /\ call' = c
    /\ UNCHANGED <<heap, root, root_parent, _size, leaked>>

\* v.push_back(val)
PushBack(val) ==
    /\ push_back(vec, val).capacity <= MaxCap
    /\ VectorCall(push_back(vec, val), Call("push_back", 0, 0, val, NULL, NULL, 0))

\* v.pop_back()
PopBack == VectorCall(pop_back(vec), Call("pop_back", 0, 0, 0, NULL, NULL, 0))

\* v.reserve(n)
Reserve(n) == VectorCall(reserve(vec, n), Call("reserve", 0, n, 0, NULL, NULL, 0))

\* v.resize(n, val); the record keeps n (k) and val (v)
Resize(n, val) == VectorCall(resize(vec, n, val), Call("resize", 0, n, val, NULL, NULL, 0))

\* v.at(n), the reference it returns being read; the record keeps n (k),
\* the value read (v) and whether out_of_range was thrown (n)
At(n) ==
    IF at_throws(vec, n)
    THEN VectorCall(vec, Call("at", 0, n, 0, NULL, NULL, 1))
    ELSE \E x \in read_at(vec, n) : VectorCall(vec, Call("at", 0, n, x, NULL, NULL, 0))

\* v.at(n) returned a reference behind the array, the read through it
\* stopped the process
AtCrash(n) ==
    /\ ~at_throws(vec, n)
    /\ n >= vec.capacity
    /\ VectorCall(vec, Call("crash", 0, 0, 0, NULL, NULL, 0))

Sizes == 0..MaxCap

InitVector == Constructed({}, 0)

NextVector ==
    \/ \E val \in Vals : PushBack(val)
    \/ PopBack
    \/ \E n \in Sizes : Reserve(n)
    \/ \E n \in Sizes, val \in Vals : Resize(n, val)
    \/ \E n \in 0..(MaxCap + 1) : At(n)
    \/ \E n \in Sizes : AtCrash(n)

SpecVector == InitVector /\ [][NextVector]_vars

(* ------------- one map, unbalanced either way, then walked ------------ *)
\* The caller of this specification fills the map in DeepOrder or in its
\* mirror image, erases by key, and then walks the map with an iterator.
MirrorOrder == [i \in 1..Len(DeepOrder) |-> DeepKeys + 1 - DeepOrder[i]]

FillOrders == {DeepOrder, MirrorOrder}

\* the caller is filling map m in the order o
FillingBy(m, o) ==
    /\ Filling(m)
    /\ {heap[n].key : n \in Elements(m)} = {o[i] : i \in 1.._size[m]}

\* the next insert of the fill in the order o
InsertNextBy(m, o) == FillingBy(m, o) /\ Insert(m, o[_size[m] + 1], DefaultVal)

\* the caller has started to walk
Walking == call.op \in {"begin", "increment", "decrement"}

\* an erase by key before the walk
EraseBeforeWalk(m, k) == ~Walking /\ EraseKey(m, k)

NextWalk ==
    \/ \E o \in FillOrders : InsertNextBy(1, o)
    \/ \E k \in DeepKeySet : EraseBeforeWalk(1, k)
    \/ Begin(1)
    \/ \E it \in Addr : Increment(1, it)
    \/ \E it \in Addr : Decrement(1, it)
    \/ \E it \in Addr : WalkCrash(1, it)
    \/ \E k \in DeepKeySet : NullCallCrash(1, k)

SpecWalk == InitDeep /\ [][NextWalk]_vars

(* ------ one map, iterators kept across calls, a failing allocator ------ *)
NextIter ==
    \/ \E k \in Keys, v \in Vals : Insert(1, k, v)
    \/ \E k \in Keys, v \in Vals, held \in Addr : InsertHolding(1, k, v, held)
    \/ \E k \in Keys : EraseKey(1, k)
    \/ \E k \in Keys, held \in Addr : EraseHolding(1, k, held)
    \/ \E k \in Keys, v \in Vals, stage \in AllocSteps : InsertBadAlloc(1, k, v, stage)
    \/ Begin(1)
    \/ \E it \in Addr : Increment(1, it)
    \/ \E it \in Addr : Decrement(1, it)
    \/ \E k \in Keys : NullCallCrash(1, k)

SpecIter == Init /\ [][NextIter]_vars

(* ------------------------ one map, inserts only ----------------------- *)
InsertKeySet == 1..InsertKeys

\* the rotations of an insert of k called update_height through a null
\* pointer and the process stopped there instead of running the callee's
\* null test
InsertCrash(m, k) ==
    /\ InsertEffect(m, k, DefaultVal).ub
    /\ Query(Call("crash", m, 0, 0, NULL, NULL, 0))

InitInsert == Constructed({1}, InsertKeys + 1)

NextInsert ==
    \/ \E k \in InsertKeySet, v \in Vals : Insert(1, k, v)
    \/ \E k \in InsertKeySet : InsertCrash(1, k)

SpecInsert == InitInsert /\ [][NextInsert]_vars

(* ------------- one map of four levels, its leaves erased -------------- *)
\* The caller of this specification fills the map level by level, so that
\* no insert rotates, with the tree 10(5(2(1, 3(, 4)), 7(6, 8(, 9))),
\* 12(11, 13(, 14))), and erases leaves of it by key.
TallOrder ==
    SelectSeq(<<10, 5, 12, 2, 7, 11, 13, 1, 3, 6, 8, 14, 4, 9>>, LAMBDA k : k <= TallKeys)

\* the keys the caller erases: the leaves of the filled tree
TallLeaves == {1, 4, 6, 9, 11, 14}

\* the next insert of the fill
InsertNextTall(m) ==
    /\ call.op \in {"none", "insert"}
    /\ _size[m] < Len(TallOrder)
    /\ Insert(m, TallOrder[_size[m] + 1], DefaultVal)

InitTall == Constructed({1}, TallKeys + 1)

NextTall ==
    \/ InsertNextTall(1)
    \/ \E k \in TallLeaves : EraseKey(1, k)
    \/ \E k \in TallLeaves : NullCallCrash(1, k)

SpecTall == InitTall /\ [][NextTall]_vars

(* --------------- two maps, used and then destroyed -------------------- *)
\* the destructor of map m has run
Destroyed(m) == ~heap[root_parent[m]].live

\* the caller has started to destroy its maps and calls nothing else
Destroying == call.op = "destroy"

\* map m goes out of scope: Map::~Map
Destroy(m) ==
    /\ ~Destroyed(m)
    /\ Apply(m, [h |-> map_destroy(heap, root[m], root_parent[m]), rt |-> NULL,
                 sz |-> _size[m]],
             Call("destroy", m, 0, 0, NULL, NULL, 0))

NextLife ==
    \/ ~Destroying /\ \E m \in Maps, k \in PairKeySet : Insert(m, k, DefaultVal)
    \/ ~Destroying /\ \E m \in Maps, k \in PairKeySet : EraseKey(m, k)
    \/ ~Destroying /\ \E m \in Maps : Clear(m)
    \/ ~Destroying /\ \E m, x \in Maps : Assign(m, x)
    \/ ~Destroying /\ \E m, x \in Maps : Swap(m, x)
    \/ \E m \in Maps : Destroy(m)
    \/ ~Destroying /\ \E m \in Maps, k \in PairKeySet : NullCallCrash(m, k)

SpecLife == InitPair /\ [][NextLife]_vars

(* ----------------------------- properties ----------------------------- *)
\* two keys are equivalent: neither is ordered before the other
Equivalent(a, b) == ~_compare(a, b) /\ ~_compare(b, a)

\* the (key, value) sequence c has an element with a key equivalent to k
HasKey(c, k) == \E i \in 1..Len(c) : Equivalent(c[i][1], k)

\* the value k maps to in c
ValueOf(c, k) == c[CHOOSE i \in 1..Len(c) : Equivalent(c[i][1], k)][2]

\* c without the element of key k
Without(c, k) == SelectSeq(c, LAMBDA e : ~Equivalent(e[1], k))

\* c with the element (k, v) put in its place, replacing that of key k if any
With(c, k, v) ==
    SelectSeq(c, LAMBDA e : _compare(e[1], k)) \o <<<<k, v>>>>
        \o SelectSeq(c, LAMBDA e : _compare(k, e[1]))

\* c without the elements at the places i .. j - 1
Outside(c, i, j) == SubSeq(c, 1, i - 1) \o SubSeq(c, j, Len(c))

\* the sequence s of keys is strictly increasing
StrictlyIncreasing(s) == \A i \in 1..(Len(s) - 1) : _compare(s[i], s[i + 1])

\* the iterator it points at the element of key k of map m
PointsAt(m, it, k) == it \in Elements(m) /\ Equivalent(heap[it].key, k)

\* the state of the maps: everything but the call record
mapState == <<heap, root, root_parent, _size, leaked>>

\* C1: after any sequence of inserts and erases from an empty tree, at every
\* node of the tree the heights of the left and the right subtree differ by
\* at most 1, an absent child counting 0.
BalanceInvariant ==
    \A m \in Maps : \A n \in Elements(m) :
        abs(Height(heap, heap[n].left) - Height(heap, heap[n].right)) <= 1

\* C2: after any sequence of inserts and erases the in-order traversal of
\* the tree yields strictly increasing keys, so no two nodes hold
\* equivalent keys.
OrderInvariant == \A m \in Maps : StrictlyIncreasing(KeysOf(m))

\* an erase has removed an element from between others, three remain in order
OrderWitness ==
    /\ call.op \in {"erase_key", "erase_at"}
    /\ Len(KeysOf(1)) = 3
    /\ KeysOf(1)[3] - KeysOf(1)[1] = 3

\* C3: after any sequence of mutating Map operations size() equals the
\* number of nodes in the map's tree.
SizeConsistency == \A m \in Maps : _size[m] = Cardinality(Elements(m))

\* what erase(k) on map m must have done, k and the count returned being in
\* the new call record
EraseByKeyOn(m) ==
    IF HasKey(Contents(m), call'.k)
    THEN /\ call'.n = 1
         /\ _size'[m] = _size[m] - 1
         /\ Contents(m)' = Without(Contents(m), call'.k)
    ELSE /\ call'.n = 0
         /\ _size'[m] = _size[m]
         /\ Contents(m)' = Contents(m)

\* C4: erase(k) of a present key returns 1, takes 1 off size() and removes
\* k's element and nothing else from the in-order (key, value) sequence; of
\* an absent key it returns 0 and changes neither the sequence nor size().
EraseByKey ==
    [][\A m \in Maps : (call'.op = "erase_key" /\ call'.m = m) => EraseByKeyOn(m)]_vars

\* erase(2) has returned 1 and left 1, 3, 4
EraseByKeyWitness ==
    /\ call.op = "erase_key" /\ call.k = 2 /\ call.n = 1
    /\ KeysOf(1) = <<1, 3, 4>>

\* the iterator the call returned points at the element of the key it was
\* given, in the map as the call left it
ReturnsElement(m) ==
    /\ call'.it \in Elements(m)'
    /\ Equivalent(heap'[call'.it].key, call'.k)

\* what insert(make_pair(k, v)) on map m must have done
InsertByValueOn(m) ==
    IF HasKey(Contents(m), call'.k)
    THEN /\ call'.n = 0
         /\ _size'[m] = _size[m]
         /\ Contents(m)' = Contents(m)
         /\ ReturnsElement(m)
    ELSE /\ call'.n = 1
         /\ _size'[m] = _size[m] + 1
         /\ Contents(m)' = With(Contents(m), call'.k, call'.v)
         /\ ReturnsElement(m)

\* C5: Map::insert(val) of a present key changes no value, no other element
\* and not size(), and returns (iterator to the element, false); of an
\* absent key it adds exactly the element val, adds 1 to size() and returns
\* (iterator to the new element, true).
InsertByValue ==
    [][\A m \in Maps : (call'.op = "insert" /\ call'.m = m) => InsertByValueOn(m)]_vars

\* insert of a present key with another value than the stored one has
\* returned false
InsertByValueWitness ==
    /\ call.op = "insert" /\ call.n = 0
    /\ HasKey(Contents(1), call.k)
    /\ ValueOf(Contents(1), call.k) # call.v

\* what m[k] must have done, the value read through the reference being in
\* the new call record
IndexReadOn(m) ==
    IF HasKey(Contents(m), call'.k)
    THEN /\ _size'[m] = _size[m]
         /\ Contents(m)' = Contents(m)
         /\ call'.v = ValueOf(Contents(m), call'.k)
    ELSE /\ _size'[m] = _size[m] + 1
         /\ Contents(m)' = With(Contents(m), call'.k, DefaultVal)
         /\ call'.v = DefaultVal

\* what m[k] = v must have done
IndexWriteOn(m) ==
    /\ _size'[m] = _size[m] + (IF HasKey(Contents(m), call'.k) THEN 0 ELSE 1)
    /\ Contents(m)' = With(Contents(m), call'.k, call'.v)

\* C6: operator[](k) of an absent key inserts k with a default-constructed
\* value and adds 1 to size(); of a present key it changes neither size()
\* nor any value; it returns a reference to k's value, so that after
\* m[k] = v the key k maps to v.
IndexOperator ==
    [][\A m \in Maps :
          /\ (call'.op = "index" /\ call'.m = m) => IndexReadOn(m)
          /\ (call'.op = "index_assign" /\ call'.m = m) => IndexWriteOn(m)]_vars

\* m[k] = v has made k map to a value that is not the default one, among
\* other elements
IndexOperatorWitness ==
    /\ call.op = "index_assign" /\ call.v # DefaultVal
    /\ Len(Contents(1)) >= 2
    /\ ValueOf(Contents(1), call.k) = call.v

\* what find(k) and count(k) on map m must have returned
FindAndCountOn(m) ==
    /\ UNCHANGED mapState
    /\ call'.op = "find" =>
          IF HasKey(Contents(m), call'.k) THEN PointsAt(m, call'.it, call'.k)
          ELSE call'.it = End(m)
    /\ call'.op = "count" =>
          call'.n = (IF HasKey(Contents(m), call'.k) THEN 1 ELSE 0)

\* C7: find(k) returns an iterator to the element of key k if there is one
\* and end() otherwise, count(k) returns 1 or 0 accordingly, and neither
\* changes the map.
FindAndCount ==
    [][\A m \in Maps :
          (call'.op \in {"find", "count"} /\ call'.m = m) => FindAndCountOn(m)]_vars

\* find of an absent key in a map of two elements or more has returned end()
FindAndCountWitness ==
    /\ call.op = "find" /\ ~HasKey(Contents(1), call.k)
    /\ Len(Contents(1)) >= 2
    /\ call.it = End(1)

\* the least key of map m among those that satisfy good, 0 when there is none
LeastKey(m, good(_)) ==
    IF \E i \in 1..Len(KeysOf(m)) : good(KeysOf(m)[i])
    THEN KeysOf(m)[CHOOSE i \in 1..Len(KeysOf(m)) :
                      /\ good(KeysOf(m)[i])
                      /\ \A j \in 1..(i - 1) : ~good(KeysOf(m)[j])]
    ELSE NoKey

\* the iterator it is the one to the element of key k, end() when k = NoKey
IteratorTo(m, it, k) == IF k = NoKey THEN it = End(m) ELSE PointsAt(m, it, k)

\* C8: lower_bound(k) returns an iterator to the element with the smallest
\* key that is not ordered before k, and end() when every key is ordered
\* before k.
LowerBoundResult ==
    [][\A m \in Maps :
          (call'.op = "lower_bound" /\ call'.m = m) =>
              IteratorTo(m, call'.it, LeastKey(m, LAMBDA x : ~_compare(x, call'.k)))]_vars

\* lower_bound of an absent key has returned the element with the next key
LowerBoundWitness ==
    /\ call.op = "lower_bound" /\ ~HasKey(Contents(1), call.k)
    /\ call.it \in Elements(1)
    /\ _compare(call.k, heap[call.it].key)
    /\ Len(Contents(1)) >= 3

\* C9: upper_bound(k) returns an iterator to the element with the smallest
\* key ordered after k, and end() when no key is ordered after k.
UpperBoundResult ==
    [][\A m \in Maps :
          (call'.op = "upper_bound" /\ call'.m = m) =>
              IteratorTo(m, call'.it, LeastKey(m, LAMBDA x : _compare(call'.k, x)))]_vars

\* upper_bound of a present key has returned the element with the next key
UpperBoundWitness ==
    /\ call.op = "upper_bound" /\ HasKey(Contents(1), call.k)
    /\ call.it \in Elements(1)
    /\ _compare(call.k, heap[call.it].key)
    /\ Len(Contents(1)) >= 3

\* C10: erase(first, last) on a valid range removes exactly the elements of
\* the range, leaves every other element as it was and takes the number of
\* elements of the range off size(); so erase(lower_bound(b), upper_bound(d))
\* removes exactly the keys from b to d.
EraseByRange ==
    [][\A m \in Maps :
          (call'.op = "erase_range" /\ call'.m = m) =>
              /\ Contents(m)' = Outside(Contents(m), call'.k, call'.n)
              /\ _size'[m] = _size[m] - (call'.n - call'.k)]_vars


\* C11: inserting distinct keys into an empty map in any order and erasing
\* them all in any order, by key or through begin(), leaves size() == 0 and
\* begin() == end(): the erase that takes the last element leaves both.
RoundTrip ==
    [][\A m \in Maps :
          (call'.op \in {"erase_key", "erase_at"} /\ call'.m = m
              /\ Elements(m) # {} /\ Elements(m)' = {}) =>
              /\ _size'[m] = 0
              /\ map_begin(heap', root'[m]) = End(m)']_vars

\* erase(begin()) has taken the last element, that of the greatest key
RoundTripWitness ==
    /\ call.op = "erase_at" /\ call.k = NumKeys
    /\ Elements(1) = {}
    /\ _size[1] = 0

\* C12: begin() is the element of the least key (end() in an empty map),
\* and ++ on the iterator at a place of the sequence yields the iterator at
\* the next place, an element of a greater key or, after the last element,
\* end(): size() increments from begin() visit every element once in
\* ascending key order and end on end().
ForwardIteration ==
    [][\A m \in Maps :
          /\ (call'.op = "begin" /\ call'.m = m) => call'.it = Positions(m)[1]
          /\ (call'.op = "increment" /\ call'.m = m) =>
                 /\ call'.it2 = Positions(m)[call'.k + 1]
                 /\ call'.it2 \in Elements(m) =>
                        _compare(heap[call'.it].key, heap[call'.it2].key)]_vars

\* C13: -- on end() of a map that is not empty yields the element of the
\* greatest key, and -- on the iterator at a place after the first yields
\* the iterator at the place before, an element of a smaller key: the walk
\* from rbegin() to rend() visits every element once in descending key order.
ReverseIteration ==
    [][\A m \in Maps :
          (call'.op = "decrement" /\ call'.m = m /\ call'.k >= 2) =>
              /\ call'.it2 = Positions(m)[call'.k - 1]
              /\ call'.it = End(m) => call'.it2 = maximum_node(heap, root[m])
              /\ call'.it # End(m) =>
                     _compare(heap[call'.it2].key, heap[call'.it].key)]_vars

\* the iterator kept across the call on map m still points at a live node
\* of m that holds the key it pointed at, with the value that key had
StillPointsAt(m) ==
    /\ ptr_ok(heap', call'.it2)
    /\ call'.it2 \in Elements(m)'
    /\ heap'[call'.it2].key = call'.n
    /\ heap'[call'.it2].val = ValueOf(Contents(m), call'.n)

\* C14: an iterator that references the element of key k before an insert
\* of any key, rotations or not, references the same live node after it,
\* with key k and the same mapped value.
InsertKeepsIterators ==
    [][\A m \in Maps :
          (call'.op = "insert_holding" /\ call'.m = m) => StillPointsAt(m)]_vars

\* the insert of 1 under 2 under 3 has rotated the node of 3, to which the
\* caller keeps an iterator, below that of 2
InsertKeepsIteratorsWitness ==
    /\ call.op = "insert_holding" /\ call.k = 1 /\ call.n = 3
    /\ KeysOf(1) = <<1, 2, 3>>
    /\ heap[call.it2].key = 3
    /\ heap[call.it2].parent = root[1]
    /\ heap[root[1]].key = 2

\* C15: erase(k) invalidates only the iterators to the erased element: an
\* iterator that referenced the element of another key before the call
\* references a live node with that key and its value after it.
EraseKeepsIterators ==
    [][\A m \in Maps :
          (call'.op = "erase_holding" /\ call'.m = m) => StillPointsAt(m)]_vars

\* C19: in a map that is not empty, -- on an iterator equal to begin()
\* yields the sentinel, an iterator equal to end().
DecrementBegin ==
    [][\A m \in Maps :
          (call'.op = "decrement" /\ call'.m = m /\ call'.k = 1
              /\ Elements(m) # {}) => call'.it2 = End(m)]_vars

\* C20: when an allocation of create_node fails during the insert of an
\* absent key the caller gets the error, and the tree (root, every node's
\* key, value, links and height) and size() are as before the call.
AllocationFailure ==
    [][\A m \in Maps :
          (call'.op = "bad_alloc" /\ call'.m = m) =>
              /\ ~HasKey(Contents(m), call'.k)
              /\ UNCHANGED <<heap, root, root_parent, _size>>]_vars

\* the allocation of the pair has failed in the insert of a key below two
\* others
AllocationFailureWitness ==
    /\ call.op = "bad_alloc" /\ call.n = 2 /\ call.k = 1
    /\ Len(Contents(1)) >= 2
    /\ ~HasKey(Contents(1), call.k)
    /\ leaked = 1

\* the step is a call on map m that runs a structural mutation of its
\* tree: AVL::insert, AVL::delete_node (the key being found), AVL::operator=
\* (which clears), or AVL::swap with m on either side
MutatesTree(m) ==
    \/ call'.m = m /\ call'.op \in {"insert", "index", "index_assign", "assign", "swap"}
    \/ call'.m = m /\ call'.op = "erase_key" /\ call'.n = 1
    \/ call'.m = m /\ call'.op \in {"erase_at", "erase_range", "clear"}
                   /\ Contents(m)' # Contents(m)
    \/ call'.n = m /\ call'.op = "swap"

\* C16: after every structural mutation of a tree (insert, delete_node,
\* clear, operator=, swap) the sentinel's left pointer equals the root
\* pointer.
SentinelLeftIsRoot ==
    [][\A m \in Maps : MutatesTree(m) => heap'[root_parent'[m]].left = root'[m]]_vars

\* C17: end() is stable: the iterator end() returned before an insert or an
\* erase on the map equals the one end() returns after it.
EndIsStable ==
    [][\A m \in Maps :
          (call'.m = m /\ call'.op \in {"insert", "index", "index_assign",
                                        "erase_key", "erase_at", "erase_range"}) =>
              End(m)' = End(m)]_vars

\* C18: begin() == end() if and only if the map is empty, that is size()
\* is 0 and the tree has no node.
BeginIsEndIffEmpty ==
    [][\A m \in Maps :
          (call'.op = "begin" /\ call'.m = m) =>
              (call'.it = End(m) <=> (_size[m] = 0 /\ Elements(m) = {}))]_vars

\* begin() on a map without elements, its sentinel's left pointer written
\* by an insert and an erase before, has returned end()
BeginIsEndIffEmptyWitness ==
    /\ call.op = "begin" /\ call.it = End(1)
    /\ Elements(1) = {} /\ _size[1] = 0
    /\ heap[root_parent[1]].left = NULL

\* C21: when a step of create_node fails during an insert (the allocation
\* of the node, the allocation of the pair or the construction of the
\* pair), nothing the insert obtained from the allocator stays allocated
\* and size() is as before.
FailedInsertRollsBack ==
    [][\A m \in Maps :
          (call'.op = "bad_alloc" /\ call'.m = m) =>
              /\ leaked' = leaked
              /\ _size'[m] = _size[m]]_vars

\* every node of map m is an allocated node
AllLive(m) == \A n \in Elements(m) : ptr_ok(heap, n)

\* at every node of map m the heights of the two subtrees differ by at most 1
Balanced(m) ==
    \A n \in Elements(m) :
        abs(Height(heap, heap[n].left) - Height(heap, heap[n].right)) <= 1

\* what a = x between the distinct maps a and x must have done
CopiedOn(a, x) ==
    /\ Contents(a)' = Contents(x)
    /\ _size'[a] = _size[x]
    /\ Contents(x)' = Contents(x)
    /\ _size'[x] = _size[x]
    /\ Elements(a)' \cap Elements(x)' = {}
    /\ AllLive(a)' /\ AllLive(x)'
    /\ StrictlyIncreasing(KeysOf(a))'
    /\ Balanced(a)'

\* C22: after a = b for two distinct maps, and after copy-constructing a
\* from b, a's in-order (key, value) sequence and size() equal b's, b is
\* unchanged, a's nodes are none of b's, and a's tree is ordered and
\* balanced.
AssignCopies ==
    [][\A a, x \in Maps :
          (call'.op = "assign" /\ call'.m = a /\ call'.n = x /\ a # x) =>
              CopiedOn(a, x)]_vars

\* a map has been assigned a map whose tree the
\* erases have left unbalanced, with values that are not the default one:
\* the copy has the same sequence in a balanced tree
AssignCopiesWitness ==
    /\ call.op = "assign" /\ call.m = 2 /\ call.n = 1
    /\ ~Balanced(1) /\ Balanced(2)
    /\ Contents(2) = Contents(1)
    /\ Len(Contents(1)) >= 5
    /\ \E i \in 1..Len(Contents(1)) : Contents(1)[i][2] # DefaultVal
    /\ heap[root_parent[2]].left = root[2]

\* the other of the two maps m and x
OtherOf(m, x, owner) == IF owner = m THEN x ELSE m

\* the iterator kept across m.swap(x) still points at the element it
\* pointed at, which is now in the other map
KeptAcrossSwap(m, x) ==
    /\ ptr_ok(heap', call'.it2)
    /\ call'.it2 \in SubtreeNodes(heap', root'[OtherOf(m, x, call'.v)])
    /\ heap'[call'.it2].key = call'.k
    /\ heap'[call'.it2].val = ValueOf(Contents(call'.v), call'.k)

\* what m.swap(x) must have done to the two maps
ExchangedOn(m, x) ==
    /\ Contents(m)' = Contents(x)
    /\ Contents(x)' = Contents(m)
    /\ _size'[m] = _size[x]
    /\ _size'[x] = _size[m]

\* C23: after a.swap(b), a's in-order sequence and size() are those b had
\* and b's are those a had; an iterator obtained before the swap still
\* references the same element; and a second a.swap(b) gives both maps
\* back their roots, sentinels and sizes.
SwapExchanges ==
    [][\A m, x \in Maps :
          /\ (call'.op \in {"swap", "swap_holding"} /\ call'.m = m /\ call'.n = x) =>
                 /\ ExchangedOn(m, x)
                 /\ map_swap(map_swap(Handles, m, x), m, x) = Handles
                 /\ map_swap(Handles, m, x).rps = root_parent'
          /\ (call'.op = "swap_holding" /\ call'.m = m /\ call'.n = x) =>
                 KeptAcrossSwap(m, x)]_vars

\* the second swap of two maps with different elements has been made, the
\* caller keeping an iterator to an element with a value that is not the
\* default one: the element is back in the map it was in
SwapExchangesWitness ==
    /\ call.op = "swap_holding" /\ call.m # call.n
    /\ leaked = 2
    /\ call.it2 \in Elements(OtherOf(call.m, call.n, call.v))
    /\ heap[call.it2].val # DefaultVal
    /\ Len(Contents(1)) = 2 /\ Len(Contents(2)) = 1
    /\ root_parent = <<1, 2>>

\* map m has no element and no node: size() is 0, the root is null, the
\* sentinel's left pointer is null, every node went back to the allocator
\* and begin() equals end()
EmptiedOn(m) ==
    /\ _size'[m] = 0
    /\ root'[m] = NULL
    /\ heap'[root_parent'[m]].left = NULL
    /\ \A a \in Elements(m) : ~ptr_ok(heap', a) \/ a \in UNION {Elements(x)' : x \in Maps}
    /\ map_begin(heap', root'[m]) = End(m)'

\* C24: after clear() on any reachable map size() is 0, the tree has no
\* node (the root is null and the sentinel's left pointer is null) and
\* begin() equals end(), so that inserts find the map as a newly
\* constructed one.
ClearEmpties ==
    [][\A m \in Maps : (call'.op = "clear" /\ call'.m = m) => EmptiedOn(m)]_vars

\* the element e is ordered before the element f: by key, then by value
ElementLess(e, f) == e[1] < f[1] \/ (e[1] = f[1] /\ e[2] < f[2])

\* the sequence s is lexicographically less than t: at the first place
\* where they differ s has ended or has the lesser element
LexLess(s, t) ==
    \E i \in 1..Len(t) :
        /\ i <= Len(s) + 1
        /\ \A j \in 1..(i - 1) : s[j] = t[j]
        /\ i = Len(s) + 1 \/ ElementLess(s[i], t[i])

\* the truth value b as operator== and operator< return it
AsInt(b) == IF b THEN 1 ELSE 0

\* C25: a == b holds iff the sizes are equal and the in-order (key, value)
\* sequences are element-wise equal, and a < b holds iff a's sequence is
\* lexicographically less than b's, a strict prefix being less.
MapComparison ==
    [][\A a, b \in Maps :
          /\ (call'.op = "equal" /\ call'.m = a /\ call'.k = b) =>
                 call'.n = AsInt(_size[a] = _size[b] /\ Contents(a) = Contents(b))
          /\ (call'.op = "less" /\ call'.m = a /\ call'.k = b) =>
                 call'.n = AsInt(LexLess(Contents(a), Contents(b)))]_vars

\* C26: at(n) throws out_of_range for every n >= size() and for every
\* n < size() returns the element at index n; the vector is unchanged in
\* both cases.
AtChecksRange ==
    [][call'.op = "at" =>
          /\ vec' = vec
          /\ IF call'.k >= vec.size THEN call'.n = 1
             ELSE call'.n = 0 /\ call'.v = vec.v[call'.k + 1]]_vars

\* the lesser of a and b
min(a, b) == IF a < b THEN a ELSE b

\* C27: after resize(n, val) size() is n, the first min(old size, n)
\* elements are unchanged, and when n is greater than the old size every
\* element at an index in [old size, n) is a copy of val, whatever the
\* relation between n and the capacity.
ResizeResult ==
    [][call'.op = "resize" =>
          /\ vec'.size = call'.k
          /\ vec'.capacity >= call'.k
          /\ \A i \in 1..min(vec.size, call'.k) : vec'.v[i] = vec.v[i]
          /\ \A i \in (vec.size + 1)..call'.k : vec'.v[i] = call'.v]_vars

\* the call balance_tree(root) that ends a frame of insert or delete_node
\* which is about to return the subtree s: the heap it finds (the height of
\* root updated) and root; none when root became NULL
BalanceCall(s) ==
    IF s.n = NULL THEN {} ELSE {[h |-> update_height(s.h, s.n), n |-> s.n]}

\* the calls of balance_tree that AVL::insert(n, parent, value) makes, in
\* every frame of the recursion
RECURSIVE InsertBalanceCalls(_, _, _, _, _, _)
InsertBalanceCalls(h, n, parent, k, v, a) ==
    IF n = NULL \/ is_equal(h, n, k) THEN {}
    ELSE IF _compare(h[n].key, k)
    THEN InsertBalanceCalls(h, h[n].right, n, k, v, a)
             \cup BalanceCall(set_right(insert(h, h[n].right, n, k, v, a), n))
    ELSE InsertBalanceCalls(h, h[n].left, n, k, v, a)
             \cup BalanceCall(set_left(insert(h, h[n].left, n, k, v, a), n))

\* the calls of balance_tree that AVL::delete_node(n, key) makes, in every
\* frame of the recursion
RECURSIVE DeleteBalanceCalls(_, _, _)
DeleteBalanceCalls(h, n, key) ==
    IF n = NULL THEN {}
    ELSE IF is_equal(h, n, key)
    THEN IF h[n].right = NULL \/ h[n].left = NULL
         THEN BalanceCall(delete_leafward(h, n, IF h[n].left # NULL THEN h[n].left
                                                ELSE h[n].right))
         ELSE DeleteBalanceCalls(take_successor(h, n, minimum_node(h, h[n].right)),
                                 h[n].right, h[minimum_node(h, h[n].right)].key)
                  \cup BalanceCall(
                           set_right(
                               delete_node(take_successor(h, n, minimum_node(h, h[n].right)),
                                           h[n].right, h[minimum_node(h, h[n].right)].key),
                               n))
    ELSE IF _compare(h[n].key, key)
    THEN DeleteBalanceCalls(h, h[n].right, key)
             \cup BalanceCall(set_right(delete_node(h, h[n].right, key), n))
    ELSE DeleteBalanceCalls(h, h[n].left, key)
             \cup BalanceCall(set_left(delete_node(h, h[n].left, key), n))

\* the rotations the rebalancing at n is to make: at balance +2 one right
\* rotation when the left child's balance is >= 0 and left-then-right
\* otherwise, at balance -2 one left rotation when the right child's
\* balance is <= 0 and right-then-left otherwise
RotationsDue(h, n) ==
    IF get_balance(h, n) = 2
    THEN IF get_balance(h, h[n].left) >= 0
         THEN right_rotation(h, n)
         ELSE left_right_rotation(left_rotation(h, h[n].left), n)
    ELSE IF get_balance(h, h[n].right) <= 0
         THEN left_rotation(h, n)
         ELSE right_left_rotation(right_rotation(h, h[n].right), n)

\* every call in the set calls that finds the balance +2 or -2 makes the
\* rotations due
RotatesAsDue(calls) ==
    \A c \in calls :
        abs(get_balance(c.h, c.n)) = 2 => balance_tree(c.h, c.n) = RotationsDue(c.h, c.n)

\* C28: rebalancing at a node with balance +2 makes a single right rotation
\* when the left child's balance is >= 0 and a left rotation at the left
\* child followed by a right rotation only when it is < 0; at balance -2 a
\* single left rotation when the right child's balance is <= 0 and the
\* right-then-left double rotation only when it is > 0.
RebalanceCases ==
    [][\A m \in Maps :
          /\ (call'.op = "insert" /\ call'.m = m /\ call'.n = 1) =>
                 RotatesAsDue(InsertBalanceCalls(heap, root[m], root_parent[m],
                                                 call'.k, call'.v, allocate(heap)))
          /\ (call'.op = "erase_key" /\ call'.m = m /\ call'.n = 1) =>
                 RotatesAsDue(DeleteBalanceCalls(heap, root[m], call'.k))]_vars

\* the child c of the node n, if present, is an allocated node whose parent
\* pointer is n
ChildLinked(n, c) == c # NULL => (ptr_ok(heap, c) /\ heap[c].parent = n)

\* C29: after any sequence of inserts and erases the parent links agree
\* with the child links: every present child c of a node n of the tree has
\* c.parent = n, the root's parent is the sentinel, and no parent or child
\* pointer of a node of the tree points at a deallocated node.
ParentLinks ==
    \A m \in Maps :
        /\ root[m] # NULL => heap[root[m]].parent = root_parent[m]
        /\ \A n \in Elements(m) :
               /\ ptr_ok(heap, n)
               /\ ptr_ok(heap, heap[n].parent)
               /\ ChildLinked(n, heap[n].left)
               /\ ChildLinked(n, heap[n].right)

\* C30: m = m leaves the in-order (key, value) sequence and size() of m
\* unchanged, and size() still equals the number of nodes of its tree.
SelfAssignKeeps ==
    [][\A m \in Maps :
          (call'.op = "assign" /\ call'.m = m /\ call'.n = m) =>
              /\ Contents(m)' = Contents(m)
              /\ _size'[m] = _size[m]
              /\ _size'[m] = Cardinality(Elements(m)')]_vars

\* the keys held by the nodes of map m
KeySet(m) == {heap[n].key : n \in Elements(m)}

\* the nodes obtained from the node allocator and not given back, the
\* sentinels apart
LiveNodes == {a \in Addr : heap[a].live} \ {root_parent[m] : m \in Maps}

\* map m has two nodes, the root and its left child
LineLeft(m) ==
    /\ Cardinality(Elements(m)) = 2
    /\ heap[root[m]].left # NULL

\* map m has two nodes, the root and its right child
LineRight(m) ==
    /\ Cardinality(Elements(m)) = 2
    /\ heap[root[m]].right # NULL

\* the frames of the insert of (k, v) into map m: the one at the root makes
\* the single rotation rotated and no other frame changes anything
SingleRotationAtRoot(m, k, v, right) ==
    \A c \in InsertBalanceCalls(heap, root[m], root_parent[m], k, v, allocate(heap)) :
        balance_tree(c.h, c.n) =
            IF c.n # root[m] THEN [h |-> c.h, n |-> c.n, ub |-> FALSE]
            ELSE IF right THEN right_rotation(c.h, c.n) ELSE left_rotation(c.h, c.n)

\* the root of map m holds the second of its three keys, its children are
\* leaves
MedianAtRoot(m) ==
    /\ Len(KeysOf(m)) = 3
    /\ heap[root[m]].key = KeysOf(m)[2]
    /\ Height(heap, root[m]) = 2

\* what an insert of call'.k into map m, which so far has only been inserted
\* into, must leave
InsertedOn(m) ==
    /\ KeySet(m)' = KeySet(m) \cup {call'.k}
    /\ Cardinality(Elements(m)') = Cardinality(KeySet(m)')
    /\ LiveNodes' = Elements(m)'
    /\ \A n \in Elements(m)' :
           /\ get_balance(heap', n) \in {0 - 1, 0, 1}
           /\ abs(Height(heap', heap'[n].left) - Height(heap', heap'[n].right)) <= 1
    /\ (LineLeft(m) /\ call'.k < heap[heap[root[m]].left].key) =>
           /\ SingleRotationAtRoot(m, call'.k, call'.v, TRUE)
           /\ MedianAtRoot(m)'
    /\ (LineRight(m) /\ call'.k > heap[heap[root[m]].right].key) =>
           /\ SingleRotationAtRoot(m, call'.k, call'.v, FALSE)
           /\ MedianAtRoot(m)'

\* C31: after any sequence of inserts alone into an empty tree exactly one
\* node exists per distinct key inserted and every node's balance factor is
\* -1, 0 or 1; a third key inserted in descending (ascending) order makes
\* one single rotation, at the root, and leaves the median key at the root.
InsertsKeepAVL ==
    [][\A m \in Maps : (call'.op = "insert" /\ call'.m = m) => InsertedOn(m)]_vars

\* the least of three keys has just been inserted under a root that holds
\* the median, as after the inserts of 3, 2, 1
InsertsKeepAVLWitness ==
    /\ call.op = "insert" /\ call.n = 1
    /\ MedianAtRoot(1)
    /\ call.k = KeysOf(1)[1]
    /\ heap[call.it].left = NULL /\ heap[call.it].right = NULL

\* the height cached in the node n, 0 for an absent node
CachedHeight(n) == IF n = NULL THEN 0 ELSE heap[n].height

\* C32: after any sequence of inserts and erases every node's cached height
\* is 1 + max(height(left), height(right)), an absent child counting 0, so
\* that a leaf has height 1.
CachedHeights ==
    \A m \in Maps : \A n \in Elements(m) :
        heap[n].height = 1 + max(CachedHeight(heap[n].left), CachedHeight(heap[n].right))

\* an erase has rotated at a node whose child was balanced and left the tree
\* out of balance, with more than one level of cached heights
CachedHeightsWitness ==
    /\ call.op = "erase_key" /\ call.n = 1
    /\ ~Balanced(1)
    /\ heap[root[1]].height >= 3

\* root->left = root->left->left_rotation() done on the heap h
left_child_rotated(h, n) ==
    [left_rotation(h, h[n].left).h EXCEPT ![n].left = left_rotation(h, h[n].left).n]

\* root->right = root->right->right_rotation() done on the heap h
right_child_rotated(h, n) ==
    [right_rotation(h, h[n].right).h EXCEPT ![n].right = right_rotation(h, h[n].right).n]

\* the rotations the call c of balance_tree makes, each with the heap it
\* finds, the node it is called on and its direction
RotationCalls(c) ==
    IF abs(get_balance(c.h, c.n)) # 2 THEN {}
    ELSE IF get_balance(c.h, c.n) > 0
    THEN IF get_balance(c.h, c.h[c.n].left) > 0
         THEN {[h |-> c.h, n |-> c.n, left |-> FALSE]}
         ELSE {[h |-> c.h, n |-> c.h[c.n].left, left |-> TRUE],
               [h |-> left_child_rotated(c.h, c.n), n |-> c.n, left |-> FALSE]}
    ELSE IF get_balance(c.h, c.h[c.n].right) < 0
         THEN {[h |-> c.h, n |-> c.n, left |-> TRUE]}
         ELSE {[h |-> c.h, n |-> c.h[c.n].right, left |-> FALSE],
               [h |-> right_child_rotated(c.h, c.n), n |-> c.n, left |-> TRUE]}

\* the rotations made by the calls of balance_tree in the set calls
RotationsOf(calls) == UNION {RotationCalls(c) : c \in calls}

\* what the rotation r returns
RotationDone(r) == IF r.left THEN left_rotation(r.h, r.n) ELSE right_rotation(r.h, r.n)

\* the child of r.n that the rotation r lifts
FormerChild(r) == IF r.left THEN r.h[r.n].right ELSE r.h[r.n].left

\* the subtree the rotation r moves across, NULL when there is none
MovedAcross(r) ==
    IF r.left THEN r.h[FormerChild(r)].left ELSE r.h[FormerChild(r)].right

\* the keys of the subtree at n of the heap h, in order
KeysInOrder(h, n) ==
    [i \in 1..Len(InOrderNodes(h, n)) |-> h[InOrderNodes(h, n)[i]].key]

\* the rotation r is the local transformation it is to be
RotationLocal(r) ==
    /\ KeysInOrder(RotationDone(r).h, RotationDone(r).n) = KeysInOrder(r.h, r.n)
    /\ RotationDone(r).n = FormerChild(r)
    /\ RotationDone(r).h[FormerChild(r)].parent = r.h[r.n].parent
    /\ RotationDone(r).h[r.n].parent = FormerChild(r)
    /\ MovedAcross(r) # NULL => RotationDone(r).h[MovedAcross(r)].parent = r.n

\* C33: a left (right) rotation at n keeps the in-order key sequence of n's
\* subtree, returns n's former right (left) child with the parent n had
\* before, sets n's parent to the node returned and the parent of the subtree
\* moved across, if any, to n.
RotationsAreLocal ==
    [][\A m \in Maps :
          /\ (call'.op = "insert" /\ call'.m = m /\ call'.n = 1) =>
                 \A r \in RotationsOf(InsertBalanceCalls(heap, root[m], root_parent[m],
                                                         call'.k, call'.v, allocate(heap))) :
                     RotationLocal(r)
          /\ (call'.op = "erase_key" /\ call'.m = m /\ call'.n = 1) =>
                 \A r \in RotationsOf(DeleteBalanceCalls(heap, root[m], call'.k)) :
                     RotationLocal(r)]_vars

\* erase(8) after erase(5) has made one right rotation at the root 6, which
\* lifted 3 and moved its right subtree, the node of 4, across to 6
RotationsAreLocalWitness ==
    /\ call.op = "erase_key" /\ call.k = 8 /\ call.n = 1
    /\ KeysOf(1) = <<1, 2, 3, 4, 6, 7>>
    /\ heap[root[1]].key = 3
    /\ heap[heap[root[1]].right].key = 6
    /\ heap[heap[root[1]].right].left # NULL
    /\ heap[heap[heap[root[1]].right].left].parent = heap[root[1]].right

\* what AVL::insert(value) does to the tree of map m
TreeInsert(m, k, v) == avl_insert(heap, root[m], root_parent[m], k, v)

\* the insert that made this step found its key in map m
InsertOfExisting(m) == call'.op = "insert" /\ call'.m = m /\ call'.n = 0

NodeOf(m, k) == search(heap, root[m], k)

\* the node of map m that holds k has two children
TwoChildren(m, k) ==
    /\ NodeOf(m, k) # NULL
    /\ heap[NodeOf(m, k)].left # NULL
    /\ heap[NodeOf(m, k)].right # NULL

\* what AVL::delete_node(key) does to the tree of map m
TreeDelete(m, k) == avl_delete_node(heap, root[m], root_parent[m], k)

\* the nodes given back to the allocator between the heaps h and g
Deallocated(h, g) == {a \in DOMAIN h : h[a].live /\ ~g[a].live}

\* the child slots of allocated nodes of the heap h that refer to n
SlotsOf(h, n) ==
    {<<p, "left">> : p \in {a \in DOMAIN h : h[a].live /\ h[a].left = n}}
        \cup {<<p, "right">> : p \in {a \in DOMAIN h : h[a].live /\ h[a].right = n}}

\* the keys of the subtree at n of the heap h
KeysIn(h, n) == {h[a].key : a \in SubtreeNodes(h, n)}

\* the element that follows the key k in the sequence of map m
Successor(m, k) ==
    Contents(m)[1 + CHOOSE i \in 1..Len(Contents(m)) : Contents(m)[i][1] = k]

\* the node n, which held k with two children in map m, after the delete
\* that returned res: still in the tree, holding the successor; the
\* successor's key gone from its right subtree and k from the tree; one
\* node deallocated, another than n
SuccessorTaken(m, k, n, res) ==
    /\ res.h[n].live
    /\ n \in SubtreeNodes(res.h, res.n)
    /\ <<res.h[n].key, res.h[n].val>> = Successor(m, k)
    /\ Successor(m, k)[1] \notin KeysIn(res.h, res.h[n].right)
    /\ KeysIn(res.h, res.n) = KeySet(m) \ {k}
    /\ Cardinality(Deallocated(heap, res.h)) = 1
    /\ n \notin Deallocated(heap, res.h)

\* the node n has after the delete that returned res the parent it had,
\* sits in the child slot it sat in and has the right subtree it had but
\* for the successor's key
PlaceKept(m, k, n, res) ==
    /\ res.h[n].parent = heap[n].parent
    /\ SlotsOf(res.h, n) = SlotsOf(heap, n)
    /\ KeysIn(res.h, res.h[n].right) = KeysIn(heap, heap[n].right) \ {Successor(m, k)[1]}

\* the erase that made this step removed a key of map m whose node had two
\* children
EraseOfTwoChildren(m) ==
    call'.op = "erase_key" /\ call'.m = m /\ call'.n = 1 /\ TwoChildren(m, call'.k)

RotatesAt(m, k, n) ==
    \E r \in RotationsOf(DeleteBalanceCalls(heap, root[m], k)) : r.n = n

OnlyChild(n) == IF heap[n].left # NULL THEN heap[n].left ELSE heap[n].right

\* the erase that made this step removed a key of map m whose node had at
\* most one child
EraseOfLeafward(m) ==
    /\ call'.op = "erase_key" /\ call'.m = m /\ call'.n = 1
    /\ NodeOf(m, call'.k) # NULL
    /\ ~TwoChildren(m, call'.k)

\* the node n is deallocated by the delete that returned res and its only
\* child c, the same node with the same pair, sits where n sat; nothing
\* refers to n when it had no child
ChildInPlace(n, c, res) ==
    /\ ~res.h[n].live
    /\ IF c = NULL THEN SlotsOf(res.h, n) = {}
       ELSE /\ res.h[c].live
            /\ res.h[c].key = heap[c].key /\ res.h[c].val = heap[c].val
            /\ SlotsOf(res.h, c) = SlotsOf(heap, n)

\* C36: deleting the key of a node that has at most one child deallocates
\* that node and puts its surviving child, or null, in its place: the child
\* keeps its identity and the deleted node's parent slot refers to it.
LeafwardDeleteRelinks ==
    [][\A m \in Maps :
          EraseOfLeafward(m) =>
              ChildInPlace(NodeOf(m, call'.k), OnlyChild(NodeOf(m, call'.k)),
                           TreeDelete(m, call'.k))]_vars

\* every call of balance_tree in the set calls finds a balance factor
\* between -2 and 2
BalanceWithinTwo(calls) == \A c \in calls : abs(get_balance(c.h, c.n)) <= 2

\* C37: every invocation of balance_tree during insert or delete_node finds
\* the node's balance factor in {-2, ..., 2}, so that a node is returned
\* without a rotation only when its balance factor is -1, 0 or 1.
BalanceAtMostTwo ==
    [][\A m \in Maps :
          /\ (call'.op = "insert" /\ call'.m = m /\ call'.n = 1) =>
                 BalanceWithinTwo(InsertBalanceCalls(heap, root[m], root_parent[m],
                                                     call'.k, call'.v, allocate(heap)))
          /\ (call'.op = "erase_key" /\ call'.m = m /\ call'.n = 1) =>
                 BalanceWithinTwo(DeleteBalanceCalls(heap, root[m], call'.k))]_vars

\* C38: immediately after the default construction of a tree, and of a Map
\* before any mutation, root is null and the freshly allocated sentinel's
\* left pointer is null.
FreshTreeIsEmpty ==
    call.op = "none" =>
        \A m \in Maps :
            /\ root[m] = NULL
            /\ heap[root_parent[m]].live
            /\ heap[root_parent[m]].left = NULL

\* what the destructor of map m gives back: the nodes of its tree and its
\* sentinel
OwnedBy(m) == Elements(m) \cup {root_parent[m]}

\* C39: after any sequence of inserts, erases, clears, assignments and swaps
\* followed by the destruction of every map, each node obtained from the
\* allocator, sentinels included, has been deallocated exactly once: a
\* destructor gives back nodes that are still allocated, and when the last
\* map is destroyed no node is left allocated, none by swap in particular.
NodesGivenBackOnce ==
    [][\A m \in Maps :
          (call'.op = "destroy" /\ call'.m = m) =>
              /\ \A n \in OwnedBy(m) : heap[n].live
              /\ Deallocated(heap, heap') = OwnedBy(m)
              /\ (\A x \in Maps : Destroyed(x)') =>
                     /\ \A a \in Addr : ~heap'[a].live
                     /\ leaked' = 0]_vars

====
